---------------------------- MODULE Spec2Model ----------------------------
(***************************************************************************)
(* Commitment-Weighted Persistence (freenet-lepus).                        *)
(*                                                                         *)
(* Part 1: the hosting cache of crates/core/src/ring/hosting/cache.rs,     *)
(* built with the "lepus" feature (CWP eviction).                          *)
(* Part 2: the deposit-index contract of contracts/deposit-index.          *)
(*                                                                         *)
(* Conventions of the cache model.                                         *)
(*  - A ContractKey is identified with the bytes of its instance id, the   *)
(*    only part of the key the victim scan compares; ids are short byte    *)
(*    strings compared lexicographically, as Rust compares &[u8].          *)
(*  - Time is counted in days since the Instant epoch, so the default      *)
(*    recency half-life of 604800 s is 7.  min_ttl and budget_bytes are    *)
(*    the constructor's arguments.                                         *)
(*  - f64 scores are exact rationals <<n, d>> in lowest terms.             *)
(*  - u64 sums stay far below u64::MAX, where saturating_add is addition.  *)
(*  - lru_order is written but never read by the lepus build; it is not    *)
(*    part of the state here.  The same holds for last_oracle_check and    *)
(*    the public keys stored beside the two identity flags.                *)
(***************************************************************************)
EXTENDS Integers, Sequences, FiniteSets, TLC

VARIABLES
    contracts,        \* HostingCache.contracts : key -> HostedContract
    current_bytes,    \* HostingCache.current_bytes
    now,              \* the TimeSource's clock
    result,           \* the RecordAccessResult / Vec<ContractKey> just returned
    removed,          \* the HostedContract values the eviction loop just removed
    unprotected_only, \* history: only record_access calls so far, none with a
                      \* TTL-protected entry in the cache
    state,            \* the deposit-index contract's state: <<>> for empty bytes,
                      \* <<map>> for a serialized DepositMap
    parameters,       \* the deposit-index contract's Parameters
    update_result,    \* whether update_state was called, and whether the last
                      \* call returned Ok
    returned,         \* what the last call of a function without side effects
                      \* (validate_state, summarize_state, ...) returned
    relayer,          \* the locals of the relay_deposit_proofs task, its position,
                      \* what its last step did, and the sequences reported to
                      \* it whose UPDATE has not succeeded yet
    subscriber_task,  \* the locals of the subscribe_to_deposit_index task, its
                      \* position, and what its last step did
    twin,             \* a HostingCache of the build without the "lepus" feature
                      \* and one of the lepus build, given the same calls
    peer_state        \* the deposit-index State a second node holds

cacheVars == <<contracts, current_bytes, now, result, removed, unprotected_only>>

diVars == <<state, parameters, update_result>>

oracleVars == <<relayer, subscriber_task>>

otherVars == <<returned, oracleVars, twin, peer_state>>

vars == <<contracts, current_bytes, now, result, removed, unprotected_only,
          state, parameters, update_result, returned, relayer, subscriber_task, twin,
          peer_state>>

\* no call made yet
NoReturn == [op |-> "none"]

OP_MANAGER_MAX_RETRIES == 60
BASE_BACKOFF_MS == 1000
RELAY_MAX_BACKOFF_MS == 300000
MAX_BACKOFF_MS == 60000
ENVELOPE_VERSION == 1
ENVELOPE_HEADER_SIZE == 129

\* relay_deposit_proofs when it is spawned.  slept, slept_failures, submitted,
\* owed and last are history: the backoff sleep before the last query and the
\* number of consecutive failures it followed, the UPDATEs of the current batch,
\* the sequence whose UPDATE failed with the sequences that followed it in its
\* batch (until that sequence is processed again), and the last step's outcome.
RelayerStart ==
    [pc |-> "start", attempt |-> 0, last_processed_ledger |-> 0,
     consecutive_failures |-> 0, backoff_ms |-> BASE_BACKOFF_MS,
     pending |-> <<>>, slept |-> 0, slept_failures |-> 0, submitted |-> <<>>,
     owed |-> [failed |-> 0, later |-> {}], unsubmitted |-> {},
     last |-> "none"]

\* subscribe_to_deposit_index when it is spawned.  failures, slept and last are
\* history: the failed SUBSCRIBEs so far, the last retry sleep, the last outcome.
SubscriberStart ==
    [pc |-> "start", attempt |-> 0, backoff_ms |-> 1000,
     failures |-> 0, slept |-> 0, last |-> "none"]

\* HostingCache::new in both builds, before any call
TwinStart ==
    [lru |-> [contracts |-> <<>>, lru_order |-> <<>>, current_bytes |-> 0],
     cwp |-> [contracts |-> <<>>, current_bytes |-> 0],
     op |-> "none", lru_evicted |-> <<>>, cwp_evicted |-> <<>>]

OthersIdle ==
    /\ returned = NoReturn
    /\ relayer = RelayerStart
    /\ subscriber_task = SubscriberStart
    /\ twin = TwinStart
    /\ peer_state = <<>>

(***************************************************************************)
(* Bounds and the cache's construction parameters.                         *)
(***************************************************************************)
budget_bytes == 2000
min_ttl == 1
MaxTime == 1
MaxMeta == 1
MaxCounter == 3
DrawnNow == 2
MaxDrawn == 2
MaxVersion == 3
MaxLedger == 2
MaxTotal == 2
MaxUpdates == 2
MaxEvents == 1
MaxOrgs == 3
MaxValidators == 3
MaxFailures == 10
MaxLedgerSeq == 2
MaxSubscribeFailures == 8
U64Bits == 3
MaxPayload == 2
MaxQueryFailures == 66
twin_min_ttl == 3
MaxTwinTime == 5

\* The inputs the operations are called with.  access_type is stored and never
\* read by the lepus build, so one value stands for Get, Put and Subscribe.
Keys == {<<0, 1>>, <<1, 0>>, <<1, 1>>}
SizeChoices == {1000, 3000}
AccessTypes == {"Get"}
DepositChoices == {0, 1}
BytesChoices == {3}
AgeChoices == {1, 2}

(***************************************************************************)
(* Exact rationals.                                                        *)
(***************************************************************************)
RECURSIVE GCD(_, _)
GCD(a, b) == IF b = 0 THEN a ELSE GCD(b, a % b)

Rat(n, d) == LET g == GCD(n, d) IN IF g = 0 THEN <<0, 1>> ELSE <<n \div g, d \div g>>

RatAdd(p, q) == Rat(p[1] * q[2] + q[1] * p[2], p[2] * q[2])

RatMul(p, q) == Rat(p[1] * q[1], p[2] * q[2])

RatDiv(p, q) == Rat(p[1] * q[2], p[2] * q[1])

RatLess(p, q) == p[1] * q[2] < q[1] * p[2]

RatMin(p, q) == IF RatLess(q, p) THEN q ELSE p

RatMax(p, q) == IF RatLess(p, q) THEN q ELSE p

RatClamp(p, lo, hi) == RatMin(RatMax(p, lo), hi)

(***************************************************************************)
(* CWPConfig::default()                                                    *)
(***************************************************************************)
commitment_weight_as_recency == <<10, 100>>

commitment_weight == <<50, 100>>
identity_weight == <<25, 100>>
contribution_weight == <<15, 100>>
recency_weight == <<10, 100>>
commitment_density_target == <<1, 1000>>
contribution_target == <<3, 2>>
recency_halflife_days == 7

saturating_sub(a, b) == IF a >= b THEN a - b ELSE 0

saturating_add(a, b) == a + b

(***************************************************************************)
(* HostedContract scoring.                                                 *)
(***************************************************************************)
commitment_score(e) ==
    LET denominator == RatMul(<<e.size_bytes, 1>>, commitment_density_target)
    IN  IF denominator[1] <= 0 THEN <<0, 1>>
        ELSE RatMin(RatDiv(<<e.deposited_xlm, 1>>, denominator), <<1, 1>>)

identity_score(e) ==
    LET creator == IF e.creator_verified THEN <<6, 10>> ELSE <<0, 1>>
        subscriber == IF e.subscriber_verified THEN <<4, 10>> ELSE <<0, 1>>
    IN  RatAdd(creator, subscriber)

contribution_score(e) ==
    LET consumed == IF e.bytes_consumed > 1 THEN e.bytes_consumed ELSE 1
        ratio == Rat(e.bytes_served, consumed)
    IN  RatMin(RatDiv(ratio, contribution_target), <<1, 1>>)

recency_score(e, t) ==
    LET elapsed == saturating_sub(t, e.last_accessed)
    IN  RatDiv(<<1, 1>>, RatAdd(<<1, 1>>, Rat(elapsed, recency_halflife_days)))

persistence_score(e, t) ==
    LET c == commitment_score(e)
        i == identity_score(e)
        n == contribution_score(e)
        r == recency_score(e, t)
        score == RatAdd(RatAdd(RatMul(commitment_weight, c), RatMul(identity_weight, i)),
                        RatAdd(RatMul(contribution_weight, n), RatMul(recency_weight, r)))
    IN  RatClamp(score, <<0, 1>>, <<1, 1>>)

(***************************************************************************)
(* Victim selection.  The scan visits the HashMap in an order the program  *)
(* does not control: every order is a possible one.                        *)
(***************************************************************************)
NoVictim == <<>>

BytesLess(a, b) ==
    \E i \in 1..Len(a) :
        /\ i <= Len(b)
        /\ \A j \in 1..(i - 1) : a[j] = b[j]
        /\ a[i] < b[i]

Remove(c, k) == [x \in (DOMAIN c) \ {k} |-> c[x]]

\* every order in which the HashMap may hand out the keys of S
RECURSIVE Orders(_)
Orders(S) ==
    IF S = {} THEN {<<>>}
    ELSE UNION {{<<x>> \o rest : rest \in Orders(S \ {x})} : x \in S}

EligibleIgnoringTtl(contract, key, t, retain) == key \notin retain

EligibleIgnoringRetain(contract, key, t, retain) ==
    ~(saturating_sub(t, contract.last_accessed) < min_ttl)

\* the two `continue`s of the scan: past min_ttl and not retained by the caller
Eligible(contract, key, t, retain) ==
    LET age == saturating_sub(t, contract.last_accessed)
    IN  /\ ~(age < min_ttl)
        /\ key \notin retain

DominatedHighest(candidate, best) ==
    \/ best = NoVictim
    \/ /\ best # NoVictim
       /\ \/ RatLess(best[1], candidate[1])
          \/ /\ candidate[1] = best[1]
             /\ \/ candidate[2] < best[2]
                \/ /\ candidate[2] = best[2]
                   /\ BytesLess(candidate[3], best[3])

DominatedNoKeyTie(candidate, best) ==
    \/ best = NoVictim
    \/ /\ best # NoVictim
       /\ \/ RatLess(candidate[1], best[1])
          \/ /\ candidate[1] = best[1]
             /\ candidate[2] < best[2]

\* candidate and best are <<score, last_accessed, key>>
Dominated(candidate, best) ==
    \/ best = NoVictim
    \/ /\ best # NoVictim
       /\ \/ RatLess(candidate[1], best[1])
          \/ /\ candidate[1] = best[1]
             /\ \/ candidate[2] < best[2]
                \/ /\ candidate[2] = best[2]
                   /\ BytesLess(candidate[3], best[3])

RECURSIVE Scan(_, _, _, _, _)
Scan(order, c, t, retain, best) ==
    IF order = <<>> THEN best
    ELSE LET key == Head(order)
             contract == c[key]
             candidate == <<persistence_score(contract, t), contract.last_accessed, key>>
         IN  IF ~Eligible(contract, key, t, retain)
             THEN Scan(Tail(order), c, t, retain, best)
             ELSE IF Dominated(candidate, best)
                  THEN Scan(Tail(order), c, t, retain, candidate)
                  ELSE Scan(Tail(order), c, t, retain, best)

\* the keys find_lowest_score_victim_with_retain can return (NoVictim for None)
find_lowest_score_victim_with_retain(c, t, retain) ==
    {LET best == Scan(order, c, t, retain, NoVictim)
     IN  IF best = NoVictim THEN NoVictim ELSE best[3] : order \in Orders(DOMAIN c)}

find_lowest_score_victim(c, t) == find_lowest_score_victim_with_retain(c, t, {})

(***************************************************************************)
(* The two eviction loops; each yields the set of outcomes the scan        *)
(* orders allow.                                                           *)
(***************************************************************************)
Outcome(c, cur, ev, rm) ==
    [contracts |-> c, current_bytes |-> cur, evicted |-> ev, removed |-> rm]

NeedsRoomIgnoringNew(c, cur, size_bytes) == cur > budget_bytes /\ DOMAIN c # {}

\* the admission loop's condition
NeedsRoom(c, cur, size_bytes) == cur + size_bytes > budget_bytes /\ DOMAIN c # {}

OverBudgetOrFull(c, cur) == cur >= budget_bytes /\ DOMAIN c # {}

\* the sweep loop's condition
OverBudget(c, cur) == cur > budget_bytes /\ DOMAIN c # {}

RECURSIVE AdmissionLoop(_, _, _, _, _, _)
AdmissionLoop(c, cur, size_bytes, t, ev, rm) ==
    IF NeedsRoom(c, cur, size_bytes)
    THEN UNION {IF victim = NoVictim
                THEN {Outcome(c, cur, ev, rm)}
                ELSE AdmissionLoop(Remove(c, victim),
                                   saturating_sub(cur, c[victim].size_bytes),
                                   size_bytes, t, Append(ev, victim), Append(rm, c[victim]))
                : victim \in find_lowest_score_victim(c, t)}
    ELSE {Outcome(c, cur, ev, rm)}

RECURSIVE SweepLoop(_, _, _, _, _, _)
SweepLoop(c, cur, t, retain, ev, rm) ==
    IF OverBudget(c, cur)
    THEN UNION {IF victim = NoVictim
                THEN {Outcome(c, cur, ev, rm)}
                ELSE SweepLoop(Remove(c, victim),
                               saturating_sub(cur, c[victim].size_bytes),
                               t, retain, Append(ev, victim), Append(rm, c[victim]))
                : victim \in find_lowest_score_victim_with_retain(c, t, retain)}
    ELSE {Outcome(c, cur, ev, rm)}

(***************************************************************************)
(* HostingCache operations.                                                *)
(***************************************************************************)
NewContract(size_bytes, last_accessed, access_type) ==
    [size_bytes |-> size_bytes, last_accessed |-> last_accessed,
     access_type |-> access_type, deposited_xlm |-> 0,
     creator_verified |-> FALSE, subscriber_verified |-> FALSE,
     bytes_served |-> 0, bytes_consumed |-> 0]

Protected(c, t) == {k \in DOMAIN c : saturating_sub(t, c[k].last_accessed) < min_ttl}

Returned(op, is_new, evicted) == [op |-> op, is_new |-> is_new, evicted |-> evicted]

\* result while no call that returns evicted keys has just returned
NoCall == Returned("none", FALSE, <<>>)

AdjustBytesNoSub(cur, size_bytes, old_size) == saturating_add(cur, size_bytes)

\* byte accounting when an existing entry changes size
AdjustBytes(cur, size_bytes, old_size) ==
    saturating_sub(saturating_add(cur, size_bytes), old_size)

RecordAccess(key, size_bytes, access_type) ==
    /\ IF key \in DOMAIN contracts
       THEN LET existing == contracts[key]
            IN  /\ current_bytes' =
                       IF existing.size_bytes # size_bytes
                       THEN AdjustBytes(current_bytes, size_bytes, existing.size_bytes)
                       ELSE current_bytes
                /\ contracts' = [contracts EXCEPT ![key] =
                                    [existing EXCEPT !.size_bytes = size_bytes,
                                                     !.last_accessed = now,
                                                     !.access_type = access_type]]
                /\ result' = Returned("record_access", FALSE, <<>>)
                /\ removed' = <<>>
       ELSE \E out \in AdmissionLoop(contracts, current_bytes, size_bytes, now, <<>>, <<>>) :
                /\ contracts' = (key :> NewContract(size_bytes, now, access_type))
                                    @@ out.contracts
                /\ current_bytes' = saturating_add(out.current_bytes, size_bytes)
                /\ result' = Returned("record_access", TRUE, out.evicted)
                /\ removed' = out.removed
    /\ unprotected_only' = (unprotected_only /\ Protected(contracts, now) = {})
    /\ UNCHANGED <<now, diVars, otherVars>>

Touch(key) ==
    /\ contracts' = IF key \in DOMAIN contracts
                    THEN [contracts EXCEPT ![key].last_accessed = now]
                    ELSE contracts
    /\ result' = NoCall
    /\ removed' = <<>>
    /\ unprotected_only' = FALSE
    /\ UNCHANGED <<current_bytes, now, diVars, otherVars>>

SweepExpired(retain) ==
    /\ \E out \in SweepLoop(contracts, current_bytes, now, retain, <<>>, <<>>) :
           /\ contracts' = out.contracts
           /\ current_bytes' = out.current_bytes
           /\ result' = Returned("sweep_expired", FALSE, out.evicted)
           /\ removed' = out.removed
    /\ unprotected_only' = FALSE
    /\ UNCHANGED <<now, diVars, otherVars>>

LoadPersistedEntry(key, size_bytes, access_type, last_access_age) ==
    /\ IF key \in DOMAIN contracts
       THEN UNCHANGED <<contracts, current_bytes>>
       ELSE LET last_accessed == IF last_access_age <= now
                                 THEN now - last_access_age ELSE now
            IN  /\ contracts' = (key :> NewContract(size_bytes, last_accessed, access_type))
                                    @@ contracts
                /\ current_bytes' = saturating_add(current_bytes, size_bytes)
    /\ result' = NoCall
    /\ removed' = <<>>
    /\ unprotected_only' = FALSE
    /\ UNCHANGED <<now, diVars, otherVars>>

\* The model bounds how much scoring metadata the cache carries at a time: the
\* number of metadata fields that differ from a fresh entry's, over all entries.
MetaFields(e) ==
    (IF e.deposited_xlm # 0 THEN 1 ELSE 0) + (IF e.creator_verified THEN 1 ELSE 0)
    + (IF e.subscriber_verified THEN 1 ELSE 0) + (IF e.bytes_served # 0 THEN 1 ELSE 0)
    + (IF e.bytes_consumed # 0 THEN 1 ELSE 0)

RECURSIVE MetaCount(_)
MetaCount(c) ==
    IF DOMAIN c = {} THEN 0
    ELSE LET k == CHOOSE x \in DOMAIN c : TRUE IN MetaFields(c[k]) + MetaCount(Remove(c, k))

WithinMeta(c) == MetaCount(c) <= MaxMeta

RecordBytesServed(key, bytes) ==
    /\ contracts' = IF key \in DOMAIN contracts
                    THEN [contracts EXCEPT ![key].bytes_served =
                             saturating_add(contracts[key].bytes_served, bytes)]
                    ELSE contracts
    /\ \A k \in DOMAIN contracts' : contracts'[k].bytes_served <= MaxCounter
    /\ WithinMeta(contracts')
    /\ result' = NoCall
    /\ removed' = <<>>
    /\ unprotected_only' = FALSE
    /\ UNCHANGED <<current_bytes, now, diVars, otherVars>>

RecordBytesConsumed(key, bytes) ==
    /\ contracts' = IF key \in DOMAIN contracts
                    THEN [contracts EXCEPT ![key].bytes_consumed =
                             saturating_add(contracts[key].bytes_consumed, bytes)]
                    ELSE contracts
    /\ \A k \in DOMAIN contracts' : contracts'[k].bytes_consumed <= MaxCounter
    /\ WithinMeta(contracts')
    /\ result' = NoCall
    /\ removed' = <<>>
    /\ unprotected_only' = FALSE
    /\ UNCHANGED <<current_bytes, now, diVars, otherVars>>

UpdateIdentity(key, creator_verified, subscriber_verified) ==
    /\ contracts' = IF key \in DOMAIN contracts
                    THEN [contracts EXCEPT ![key].creator_verified = creator_verified,
                                           ![key].subscriber_verified = subscriber_verified]
                    ELSE contracts
    /\ WithinMeta(contracts')
    /\ result' = NoCall
    /\ removed' = <<>>
    /\ unprotected_only' = FALSE
    /\ UNCHANGED <<current_bytes, now, diVars, otherVars>>

UpdateCommitment(key, deposited_xlm) ==
    /\ contracts' = IF key \in DOMAIN contracts
                    THEN [contracts EXCEPT ![key].deposited_xlm = deposited_xlm]
                    ELSE contracts
    /\ WithinMeta(contracts')
    /\ result' = NoCall
    /\ removed' = <<>>
    /\ unprotected_only' = FALSE
    /\ UNCHANGED <<current_bytes, now, diVars, otherVars>>

AdvanceTime ==
    /\ now < MaxTime
    /\ now' = now + 1
    /\ result' = NoCall
    /\ removed' = <<>>
    /\ UNCHANGED <<contracts, current_bytes, unprotected_only, diVars, otherVars>>

(***************************************************************************)
(* The deposit-index contract (contracts/deposit-index).  A contract id is *)
(* a hex string, here a short sequence of digits compared as strings are.  *)
(***************************************************************************)
ContractIds == {<<0, 1>>, <<1, 0>>}
AmountChoices == {-1, 1}

StringLess(a, b) ==
    \/ \E i \in 1..Len(a) :
           /\ i <= Len(b)
           /\ \A j \in 1..(i - 1) : a[j] = b[j]
           /\ a[i] < b[i]
    \/ /\ Len(a) < Len(b)
       /\ \A j \in 1..Len(a) : a[j] = b[j]

DepositEntry(contract_id, total_deposited, last_ledger) ==
    [contract_id |-> contract_id, total_deposited |-> total_deposited,
     last_ledger |-> last_ledger]

\* DepositMap::default()
DefaultMap == [version |-> 0, last_ledger_seq |-> 0, deposits |-> <<>>]

IsSortedBy(deposits) ==
    \A i \in 1..Len(deposits), j \in 1..Len(deposits) :
        i < j => ~StringLess(deposits[j].contract_id, deposits[i].contract_id)

\* slice::binary_search_by: <<"Ok", idx>> for a match, <<"Err", idx>> for the
\* insertion point; on a slice that is not sorted the result is unspecified.
binary_search_by(deposits, contract_id) ==
    LET matches == {i \in 1..Len(deposits) : deposits[i].contract_id = contract_id}
        below == {i \in 1..Len(deposits) : StringLess(deposits[i].contract_id, contract_id)}
    IN  IF IsSortedBy(deposits)
        THEN IF matches # {}
             THEN {<<"Ok", i>> : i \in matches}
             ELSE {<<"Err", Cardinality(below) + 1>>}
        ELSE {<<"Ok", i>> : i \in matches}
                 \cup {<<"Err", i>> : i \in 1..(Len(deposits) + 1)}

InsertAt(seq, idx, e) ==
    SubSeq(seq, 1, idx - 1) \o <<e>> \o SubSeq(seq, idx, Len(seq))

\* the maps merge_deposit can leave
merge_deposit(map, contract_id, amount, ledger_seq) ==
    {IF found[1] = "Ok"
     THEN LET existing == map.deposits[found[2]]
          IN  [map EXCEPT !.deposits[found[2]] =
                  [existing EXCEPT
                      !.total_deposited = existing.total_deposited + amount,
                      !.last_ledger = IF ledger_seq > existing.last_ledger
                                      THEN ledger_seq ELSE existing.last_ledger]]
     ELSE [map EXCEPT !.deposits =
              InsertAt(map.deposits, found[2],
                       DepositEntry(contract_id, amount, ledger_seq))]
     : found \in binary_search_by(map.deposits, contract_id)}

RECURSIVE MergeAll(_, _, _)
MergeAll(deposits, ledger_seq, map) ==
    IF deposits = <<>> THEN {map}
    ELSE UNION {MergeAll(Tail(deposits), ledger_seq, merged) :
                   merged \in merge_deposit(map, Head(deposits).contract_id,
                                            Head(deposits).amount, ledger_seq)}

\* DepositIndexParams as update_state reads it: whether the Parameters bytes
\* deserialize (and their two hex fields decode), the validators of each
\* organization (public keys, here numbers), and quorum_org_threshold.
DepositIndexParams(deserializes, organizations, quorum_org_threshold) ==
    [deserializes |-> deserializes, organizations |-> organizations,
     quorum_org_threshold |-> quorum_org_threshold]

\* An ScpEnvelope: the validator whose key signed it, the kind of its pledges,
\* whether the ed25519 signature verifies, whether the committed ballot value
\* decodes as a StellarValue, and that value's tx_set_hash.
ScpEnvelope(node_id, pledges, signature_valid, value_decodes, tx_set_hash) ==
    [node_id |-> node_id, pledges |-> pledges, signature_valid |-> signature_valid,
     value_decodes |-> value_decodes, tx_set_hash |-> tx_set_hash]

verify_envelope_signature(envelope) == envelope.signature_valid

extract_consensus_value(envelope) ==
    envelope.pledges = "Externalize" /\ envelope.value_decodes

\* the (signer, hash) pairs check_quorum collects
valid_signers(envelopes) ==
    LET kept == SelectSeq(envelopes,
                    LAMBDA e : /\ e.pledges = "Externalize"
                               /\ verify_envelope_signature(e)
                               /\ extract_consensus_value(e))
    IN  [i \in 1..Len(kept) |-> <<kept[i].node_id, kept[i].tx_set_hash>>]

count_org_signers(org, signers) ==
    Cardinality({i \in 1..Len(org) : \E j \in 1..Len(signers) : signers[j][1] = org[i]})

\* mutants of majority and quorum_threshold
half(n) == n \div 2
third_doubled_plus_one(n) == ((n \div 3) * 2) + 1

\* scp.rs:152
majority(n) == (n \div 2) + 1

\* scp.rs:144
default_threshold(n) == ((n * 2) \div 3) + 1

quorum_threshold(params) ==
    IF params.quorum_org_threshold = 0
    THEN default_threshold(Len(params.organizations))
    ELSE params.quorum_org_threshold

orgs_with_majority(params, signers) ==
    Cardinality({o \in 1..Len(params.organizations) :
        count_org_signers(params.organizations[o], signers)
            >= majority(Len(params.organizations[o]))})

QuorumResult(ok, tx_set_hash, note) == [ok |-> ok, tx_set_hash |-> tx_set_hash, note |-> note]

check_quorum(envelopes, params) ==
    LET signers == valid_signers(envelopes)
    IN  IF envelopes = <<>> THEN QuorumResult(FALSE, 0, "no_envelopes")
        ELSE IF signers = <<>> THEN QuorumResult(FALSE, 0, "no_valid_signatures")
        ELSE IF \E j \in 1..Len(signers) : signers[j][2] # signers[1][2]
        THEN QuorumResult(FALSE, 0, "disagree")
        ELSE IF orgs_with_majority(params, signers) < quorum_threshold(params)
        THEN QuorumResult(FALSE, 0, "insufficient_quorum")
        ELSE QuorumResult(TRUE, signers[1][2], "quorum")

\* hash_chain::verify_tx_set_hash on a transaction set given by the hash of its
\* canonical encoding
verify_tx_set_hash(transaction_set, expected_hash) == transaction_set = expected_hash

ExtractedDeposit(contract_id, amount) == [contract_id |-> contract_id, amount |-> amount]

\* events::try_extract_deposit: an event of another contract (or of another
\* shape) yields nothing
try_extract_deposit(event) == event.address = "hvym"

extract_deposits(metas) ==
    LET kept == SelectSeq(metas, try_extract_deposit)
    IN  [i \in 1..Len(kept) |-> ExtractedDeposit(kept[i].contract_id, kept[i].amount)]

ProofResult(ok, did_change, map, note) ==
    [ok |-> ok, did_change |-> did_change, map |-> map, note |-> note]

\* mutants of Stale
StaleStrict(proof, map) == proof.ledger_seq < map.last_ledger_seq
NeverStale(proof, map) == FALSE

\* lib.rs:178
Stale(proof, map) == proof.ledger_seq <= map.last_ledger_seq

\* mutant of EmptyLedger
EmptyLedgerUnchanged(proof, map) == ProofResult(TRUE, FALSE, map, "advanced")

\* lib.rs:195-199
EmptyLedger(proof, map) ==
    ProofResult(TRUE, TRUE, [map EXCEPT !.last_ledger_seq = proof.ledger_seq], "advanced")

\* A DepositProof carries its ledger_seq, which of its base64/XDR parts fails
\* to decode ("none" when all decode), its envelopes, the hash of its
\* transaction set and the contract events of its result metas.
apply_proof(proof, params, map) ==
    IF Stale(proof, map)
    THEN {ProofResult(TRUE, FALSE, map, "stale")}
    ELSE IF proof.undecodable = "scp_envelopes"
    THEN {ProofResult(FALSE, FALSE, map, "undecodable")}
    ELSE LET quorum == check_quorum(proof.scp_envelopes, params)
         IN  IF ~quorum.ok
             THEN {ProofResult(FALSE, FALSE, map, quorum.note)}
             ELSE IF proof.undecodable = "transaction_set"
             THEN {ProofResult(FALSE, FALSE, map, "undecodable")}
             ELSE IF ~verify_tx_set_hash(proof.transaction_set, quorum.tx_set_hash)
             THEN {ProofResult(FALSE, FALSE, map, "hash_mismatch")}
             ELSE IF proof.undecodable = "tx_result_metas"
             THEN {ProofResult(FALSE, FALSE, map, "undecodable")}
             ELSE LET deposits == extract_deposits(proof.tx_result_metas)
                  IN  IF deposits = <<>>
                      THEN {EmptyLedger(proof, map)}
                      ELSE {ProofResult(TRUE, TRUE,
                                [merged EXCEPT !.last_ledger_seq = proof.ledger_seq],
                                "merged") :
                               merged \in MergeAll(deposits, proof.ledger_seq, map)}

\* mutant of Newer
NewerOrEqual(incoming, map) == incoming.version >= map.version

\* lib.rs:98
Newer(incoming, map) == incoming.version > map.version

UpdateResult(ok, map, changed, trace) ==
    [ok |-> ok, map |-> map, changed |-> changed, trace |-> trace]

\* the loop of update_state over the UpdateData items; trace records what the
\* loop did with each item
RECURSIVE ProcessUpdates(_, _, _, _, _)
ProcessUpdates(data, params, map, changed, trace) ==
    IF data = <<>> THEN {UpdateResult(TRUE, map, changed, trace)}
    ELSE LET ud == Head(data)
         IN  CASE ud.kind = "Delta" ->
                      UNION {ProcessUpdates(Tail(data), params, r.map,
                                            changed \/ (r.ok /\ r.did_change),
                                            Append(trace, r.note)) :
                                r \in apply_proof(ud.proof, params, map)}
               [] ud.kind = "State" ->
                      IF Newer(ud.incoming, map)
                      THEN ProcessUpdates(Tail(data), params, ud.incoming, TRUE,
                                          Append(trace, "replaced"))
                      ELSE ProcessUpdates(Tail(data), params, map, changed,
                                          Append(trace, "kept"))
               [] ud.kind = "Malformed" ->
                      {UpdateResult(FALSE, map, changed, Append(trace, "malformed"))}
               [] OTHER -> ProcessUpdates(Tail(data), params, map, changed,
                                          Append(trace, "ignored"))

\* mutant of BumpVersion
BumpVersionAlways(map, changed) == [map EXCEPT !.version = map.version + 1]

\* lib.rs:107-109
BumpVersion(map, changed) ==
    IF changed THEN [map EXCEPT !.version = map.version + 1] ELSE map

MapOf(st) == IF st = <<>> THEN DefaultMap ELSE st[1]

\* What update_state(parameters, state, data) can return: ok and the new state,
\* or an error (the state the host keeps is then the old one).
update_state(params, st, data) ==
    IF ~params.deserializes
    THEN {[ok |-> FALSE, state |-> st, trace |-> <<"params">>]}
    ELSE {[ok |-> out.ok,
           state |-> IF out.ok THEN <<BumpVersion(out.map, out.changed)>> ELSE st,
           trace |-> out.trace] :
             out \in ProcessUpdates(data, params, MapOf(st), FALSE, <<>>)}

SeqsUpTo(S, n) == UNION {[1..m -> S] : m \in 0..n}

\* the contract events a ledger's result metas can hold: DEPOSIT events of the
\* hvym contract, with amounts of either sign, and an event of another contract
ContractEvents ==
    [address : {"hvym"}, contract_id : ContractIds, amount : AmountChoices]
    \cup {[address |-> "other", contract_id |-> <<0, 1>>, amount |-> 1]}

\* two organizations, of three validators and of one
DepositParams == DepositIndexParams(TRUE, <<<<1, 2, 3>>, <<4>>>>, 0)

UndeserializableParams == DepositIndexParams(FALSE, <<>>, 0)

Externalize(node_id, tx_set_hash) ==
    ScpEnvelope(node_id, "Externalize", TRUE, TRUE, tx_set_hash)

\* envelopes that meet DepositParams' quorum on hash 1
QuorumEnvelopes == <<Externalize(1, 1), Externalize(2, 1), Externalize(4, 1)>>

DepositProof(ledger_seq, undecodable, scp_envelopes, transaction_set, tx_result_metas) ==
    [ledger_seq |-> ledger_seq, undecodable |-> undecodable,
     scp_envelopes |-> scp_envelopes, transaction_set |-> transaction_set,
     tx_result_metas |-> tx_result_metas]

ValidProofs ==
    {DepositProof(ledger_seq, "none", QuorumEnvelopes, 1, metas) :
        ledger_seq \in 1..MaxLedger, metas \in SeqsUpTo(ContractEvents, MaxEvents)}

\* proofs that fail one stage each: a part that does not decode, a quorum of one
\* organization only, and a transaction set with another hash
InvalidProof ==
    DepositProof(MaxLedger, "none", <<Externalize(1, 1), Externalize(2, 1)>>, 1, <<>>)

InvalidProofs ==
    {InvalidProof,
     DepositProof(MaxLedger, "none", QuorumEnvelopes, 2, <<>>)}
    \cup {DepositProof(MaxLedger, part, QuorumEnvelopes, 1, <<>>) :
             part \in {"scp_envelopes", "transaction_set", "tx_result_metas"}}

Proofs == ValidProofs \cup InvalidProofs

\* the deposits of an incoming State: none, both contracts in ascending order,
\* and both in descending order
IncomingDeposits ==
    {<<>>,
     <<DepositEntry(<<0, 1>>, 1, 1), DepositEntry(<<1, 0>>, 1, 1)>>,
     <<DepositEntry(<<1, 0>>, 1, 1), DepositEntry(<<0, 1>>, 1, 1)>>}

IncomingMaps ==
    [version : 1..MaxVersion, last_ledger_seq : {0, MaxLedger},
     deposits : IncomingDeposits]

\* UpdateData: a Delta with a proof, a non-empty State with a map, bytes that do
\* not deserialize, and the variants the loop ignores
UpdateData ==
    {[kind |-> "Delta", proof |-> p, incoming |-> DefaultMap] : p \in Proofs}
    \cup {[kind |-> "State", proof |-> InvalidProof, incoming |-> m] : m \in IncomingMaps}
    \cup {[kind |-> k, proof |-> InvalidProof, incoming |-> DefaultMap] :
             k \in {"Malformed", "Ignored"}}

Batches == SeqsUpTo(UpdateData, MaxUpdates)

WithinDepositBounds(st) ==
    st # <<>> =>
        /\ st[1].version <= MaxVersion
        /\ \A i \in 1..Len(st[1].deposits) :
               /\ st[1].deposits[i].total_deposited <= MaxTotal
               /\ st[1].deposits[i].total_deposited >= -MaxTotal

NoUpdate == [called |-> FALSE, ok |-> TRUE]

UpdateState(data) ==
    \E out \in update_state(parameters, state, data) :
        /\ WithinDepositBounds(out.state)
        /\ state' = out.state
        /\ update_result' = [called |-> TRUE, ok |-> out.ok]
        /\ UNCHANGED <<parameters, cacheVars, otherVars>>

RECURSIVE SumSizes(_)
SumSizes(c) ==
    IF DOMAIN c = {} THEN 0
    ELSE LET k == CHOOSE x \in DOMAIN c : TRUE IN c[k].size_bytes + SumSizes(Remove(c, k))

\* HostingCache::new
Init ==
    /\ contracts = <<>>
    /\ current_bytes = 0
    /\ now = 0
    /\ result = NoCall
    /\ removed = <<>>
    /\ unprotected_only = TRUE
    /\ state = <<>>
    /\ parameters = DepositParams
    /\ update_result = NoUpdate
    /\ OthersIdle

Next ==
    \/ \E key \in Keys, size_bytes \in SizeChoices, access_type \in AccessTypes :
           RecordAccess(key, size_bytes, access_type)
    \/ \E key \in Keys : Touch(key)
    \/ \E retain \in SUBSET Keys : SweepExpired(retain)
    \/ \E key \in Keys, size_bytes \in SizeChoices, access_type \in AccessTypes,
          age \in AgeChoices :
           LoadPersistedEntry(key, size_bytes, access_type, age)
    \/ \E key \in Keys, bytes \in BytesChoices : RecordBytesServed(key, bytes)
    \/ \E key \in Keys, bytes \in BytesChoices : RecordBytesConsumed(key, bytes)
    \/ \E key \in Keys, cv \in BOOLEAN, sv \in BOOLEAN : UpdateIdentity(key, cv, sv)
    \/ \E key \in Keys, deposited_xlm \in DepositChoices : UpdateCommitment(key, deposited_xlm)
    \/ AdvanceTime

Spec == Init /\ [][Next]_vars

(***************************************************************************)
(* Victim selection as a function of the cache: the cache starts in any    *)
(* state of at most MaxDrawn entries that the operations above can build,  *)
(* at time DrawnNow, and admissions and sweeps act on it.                  *)
(***************************************************************************)
DrawnEntries ==
    {[NewContract(size_bytes, last_accessed, "Get") EXCEPT
          !.deposited_xlm = deposited_xlm,
          !.creator_verified = identity[1], !.subscriber_verified = identity[2],
          !.bytes_served = bytes_served] :
        size_bytes \in SizeChoices, last_accessed \in 0..DrawnNow,
        deposited_xlm \in DepositChoices,
        identity \in {<<FALSE, FALSE>>, <<TRUE, FALSE>>, <<TRUE, TRUE>>},
        bytes_served \in {0} \cup BytesChoices}

DrawnCaches ==
    UNION {[S -> DrawnEntries] : S \in {T \in SUBSET Keys : Cardinality(T) <= MaxDrawn}}

InitVictim ==
    /\ contracts \in DrawnCaches
    /\ current_bytes = SumSizes(contracts)
    /\ now = DrawnNow
    /\ result = NoCall
    /\ removed = <<>>
    /\ unprotected_only = FALSE
    /\ state = <<>>
    /\ parameters = DepositParams
    /\ update_result = NoUpdate
    /\ OthersIdle

NextVictim ==
    \/ \E key \in Keys, size_bytes \in SizeChoices : RecordAccess(key, size_bytes, "Get")
    \/ \E retain \in SUBSET Keys : SweepExpired(retain)

SpecVictim == InitVictim /\ [][NextVictim]_vars

(***************************************************************************)
(* The deposit-index contract from the empty state.                        *)
(***************************************************************************)
InitDeposit ==
    /\ contracts = <<>>
    /\ current_bytes = 0
    /\ now = 0
    /\ result = NoCall
    /\ removed = <<>>
    /\ unprotected_only = TRUE
    /\ state = <<>>
    /\ parameters \in {DepositParams, UndeserializableParams}
    /\ update_result = NoUpdate
    /\ OthersIdle

NextDeposit == \E data \in Batches : UpdateState(data)

SpecDeposit == InitDeposit /\ [][NextDeposit]_vars

(***************************************************************************)
(* The quorum rule as a function of the parameters: the contract is        *)
(* created with any organizations of up to MaxOrgs organizations of up to  *)
(* MaxValidators validators, and any threshold; each update is one Delta   *)
(* whose proof is signed by a set of validators and, possibly, by a key of *)
(* no organization, with at most one envelope that is not a valid          *)
(* externalize statement on the agreed value.                              *)
(***************************************************************************)
\* validator i of organization o
ValidatorKey(o, i) == (o * 10) + i

\* a key that no organization lists
Outsider == 0

OrgsOfSizes(sizes) ==
    [o \in 1..Len(sizes) |-> [i \in 1..sizes[o] |-> ValidatorKey(o, i)]]

QuorumParams ==
    {DepositIndexParams(TRUE, OrgsOfSizes(sizes), threshold) :
        sizes \in UNION {[1..n -> 1..MaxValidators] : n \in 1..MaxOrgs},
        threshold \in 0..MaxOrgs}

ValidatorsOf(params) ==
    UNION {{params.organizations[o][i] : i \in 1..Len(params.organizations[o])} :
              o \in 1..Len(params.organizations)}

Defects == {"none", "bad_signature", "not_externalize", "undecodable_value", "other_hash"}

Defective(node_id, defect) ==
    CASE defect = "bad_signature" -> ScpEnvelope(node_id, "Externalize", FALSE, TRUE, 1)
      [] defect = "not_externalize" -> ScpEnvelope(node_id, "Prepare", TRUE, TRUE, 1)
      [] defect = "undecodable_value" -> ScpEnvelope(node_id, "Externalize", TRUE, FALSE, 1)
      [] defect = "other_hash" -> Externalize(node_id, 2)
      [] OTHER -> Externalize(node_id, 1)

\* one envelope per key of signers, in ascending key order, the first with the
\* defect
RECURSIVE EnvelopesOf(_, _)
EnvelopesOf(signers, defect) ==
    IF signers = {} THEN <<>>
    ELSE LET first == CHOOSE k \in signers : \A other \in signers : k <= other
         IN  <<Defective(first, defect)>> \o EnvelopesOf(signers \ {first}, "none")

QuorumProofs(params) ==
    {DepositProof(ledger_seq, "none", EnvelopesOf(signers, defect), 1, <<>>) :
        ledger_seq \in 1..MaxLedger,
        signers \in SUBSET (ValidatorsOf(params) \cup {Outsider}),
        defect \in Defects}

InitQuorum ==
    /\ contracts = <<>>
    /\ current_bytes = 0
    /\ now = 0
    /\ result = NoCall
    /\ removed = <<>>
    /\ unprotected_only = TRUE
    /\ state = <<>>
    /\ parameters \in QuorumParams
    /\ update_result = NoUpdate
    /\ OthersIdle

NextQuorum ==
    \E proof \in QuorumProofs(parameters) :
        UpdateState(<<[kind |-> "Delta", proof |-> proof, incoming |-> DefaultMap]>>)

SpecQuorum == InitQuorum /\ [][NextQuorum]_vars

(***************************************************************************)
(* Properties of the hosting cache.                                        *)
(***************************************************************************)
Age(e, t) == IF t >= e.last_accessed THEN t - e.last_accessed ELSE 0

\* the entries of cache c a scan at time t may pick, stated from the rule itself
MayEvict(c, t, retain) == {k \in DOMAIN c : Age(c[k], t) >= min_ttl /\ k \notin retain}

\* the keys of c left after the first i - 1 evictions of ev
Rest(c, ev, i) == (DOMAIN c) \ {ev[j] : j \in 1..(i - 1)}

\* C1: after every cache operation current_bytes equals the sum of size_bytes
\* over the entries the cache holds.
C1_BytesAccounted == current_bytes = SumSizes(contracts)

C1_Witness ==
    /\ result.op = "record_access"
    /\ Len(result.evicted) >= 1
    /\ Cardinality(DOMAIN contracts) >= 2
    /\ current_bytes > budget_bytes

\* C2: every key an eviction returns belonged to an entry whose age was at
\* least min_ttl, an entry younger than min_ttl stays in the cache, and
\* sweep_expired never evicts a key for which should_retain holds.
C2_EvictOnlyExpired ==
    [][/\ \A i \in 1..Len(result'.evicted) :
              /\ result'.evicted[i] \in DOMAIN contracts
              /\ Age(contracts[result'.evicted[i]], now) >= min_ttl
       /\ \A k \in DOMAIN contracts : Age(contracts[k], now) < min_ttl => k \in DOMAIN contracts'
       /\ result'.op = "sweep_expired" =>
              \A retain \in SUBSET Keys :
                  \/ /\ \A i \in 1..Len(result'.evicted) : result'.evicted[i] \notin retain
                     /\ \A k \in retain \cap DOMAIN contracts : k \in DOMAIN contracts'
                  \/ ~SweepExpired(retain)
      ]_vars

C2_Witness ==
    /\ result.op = "sweep_expired"
    /\ Len(result.evicted) >= 1
    /\ current_bytes > budget_bytes
    /\ \E k \in DOMAIN contracts : Age(contracts[k], now) >= min_ttl

LowestScoreFirst(c, t, retain, ev) ==
    \A i \in 1..Len(ev) :
        \A k \in Rest(c, ev, i) \cap MayEvict(c, t, retain) :
            ~RatLess(persistence_score(c[k], t), persistence_score(c[ev[i]], t))

\* C3: each evicted entry had the lowest persistence score among the entries
\* that were eligible (past min_ttl, not retained) when it was chosen.
C3_LowestScoreEvicted ==
    [][/\ result'.op = "record_access" =>
              LowestScoreFirst(contracts, now, {}, result'.evicted)
       /\ result'.op = "sweep_expired" =>
              \A retain \in SUBSET Keys :
                  \/ LowestScoreFirst(contracts, now, retain, result'.evicted)
                  \/ ~SweepExpired(retain)
      ]_vars

C3_Witness ==
    \E i \in 1..Len(removed), k \in DOMAIN contracts :
        /\ Age(contracts[k], now) >= min_ttl
        /\ RatLess(persistence_score(removed[i], now), persistence_score(contracts[k], now))
        /\ contracts[k].last_accessed < removed[i].last_accessed

\* commitment density at or above the target: the commitment sub-score is 1
Saturated(e) == e.size_bytes > 0 /\ 1000 * e.deposited_xlm >= e.size_bytes

Uncommitted(e) == e.deposited_xlm = 0 /\ ~e.creator_verified /\ ~e.subscriber_verified

CommittedOutlive(c, t, retain, ev) ==
    \A i \in 1..Len(ev) :
        Saturated(c[ev[i]]) =>
            ~\E k \in Rest(c, ev, i) \cap MayEvict(c, t, retain) : Uncommitted(c[k])

\* C4: with the default weights an entry whose deposit saturates the
\* commitment sub-score is never evicted while an eligible entry with zero
\* deposit and no verified identity exists, whatever the contribution
\* counters and access times of the two.
C4_DepositOutlivesSpam ==
    [][/\ result'.op = "record_access" =>
              CommittedOutlive(contracts, now, {}, result'.evicted)
       /\ result'.op = "sweep_expired" =>
              \A retain \in SUBSET Keys :
                  \/ CommittedOutlive(contracts, now, retain, result'.evicted)
                  \/ ~SweepExpired(retain)
      ]_vars

C4_Witness ==
    \E i \in 1..Len(removed), k \in DOMAIN contracts :
        /\ Saturated(contracts[k])
        /\ Age(contracts[k], now) >= min_ttl
        /\ contracts[k].bytes_served = 0
        /\ Uncommitted(removed[i])
        /\ removed[i].bytes_served > 0
        /\ removed[i].last_accessed > contracts[k].last_accessed

\* C5 as stated: after any sequence of record_access calls none of which
\* found a TTL-protected entry in the cache, current_bytes is at most
\* budget_bytes.
C5_WithinBudgetAsStated == unprotected_only => current_bytes <= budget_bytes

\* C5: a record_access call that admits a key not yet cached, with a size of
\* at most budget_bytes, while no entry is TTL-protected, leaves
\* current_bytes at most budget_bytes.
C5_AdmissionWithinBudget ==
    [][(result'.op = "record_access" /\ Protected(contracts, now) = {}) =>
           \A key \in Keys \ DOMAIN contracts, size_bytes \in SizeChoices,
              access_type \in AccessTypes :
               \/ size_bytes > budget_bytes
               \/ current_bytes' <= budget_bytes
               \/ ~RecordAccess(key, size_bytes, access_type)
      ]_vars

C5_Witness ==
    /\ result.op = "record_access"
    /\ result.is_new
    /\ Len(result.evicted) >= 1
    /\ current_bytes <= budget_bytes
    /\ \A k \in DOMAIN contracts : contracts[k].size_bytes <= budget_bytes

\* C6: sweep_expired evicts nothing unless the cache is over budget, and when
\* it returns either current_bytes is at most budget_bytes or no entry is
\* eligible for eviction any more.
C6_SweepToBudget ==
    [][result'.op = "sweep_expired" =>
           /\ current_bytes <= budget_bytes =>
                  (result'.evicted = <<>> /\ contracts' = contracts)
           /\ \A retain \in SUBSET Keys :
                  \/ current_bytes' <= budget_bytes
                  \/ MayEvict(contracts', now', retain) = {}
                  \/ ~SweepExpired(retain)
      ]_vars

C6_Witness ==
    /\ result.op = "sweep_expired"
    /\ Len(result.evicted) >= 1
    /\ current_bytes <= budget_bytes
    /\ contracts # <<>>

\* C7: record_access of a key not yet cached always inserts it and reports
\* is_new; when every cached entry is TTL-protected nothing is evicted and
\* the cache is left over budget if the new entry does not fit.
C7_NewAlwaysAdmitted ==
    [][result'.op = "record_access" =>
           \A key \in Keys \ DOMAIN contracts, size_bytes \in SizeChoices,
              access_type \in AccessTypes :
               \/ /\ key \in DOMAIN contracts'
                  /\ contracts'[key].size_bytes = size_bytes
                  /\ result'.is_new
                  /\ Protected(contracts, now) = DOMAIN contracts =>
                         /\ result'.evicted = <<>>
                         /\ \A k \in DOMAIN contracts : k \in DOMAIN contracts'
                         /\ current_bytes' = current_bytes + size_bytes
               \/ ~RecordAccess(key, size_bytes, access_type)
      ]_vars

C7_Witness ==
    /\ result.op = "record_access"
    /\ result.is_new
    /\ result.evicted = <<>>
    /\ current_bytes > budget_bytes
    /\ Cardinality(DOMAIN contracts) >= 2
    /\ Protected(contracts, now) = DOMAIN contracts

\* C8 as stated: touch restarts the TTL of a cached entry and leaves its
\* recency sub-score, its persistence score and its access_type as they were.
C8_TouchKeepsRecency ==
    [][\A key \in Keys :
           (Touch(key) /\ key \in DOMAIN contracts)
           => /\ Age(contracts'[key], now') = 0
              /\ contracts'[key].access_type = contracts[key].access_type
              /\ recency_score(contracts'[key], now') = recency_score(contracts[key], now)
              /\ persistence_score(contracts'[key], now')
                     = persistence_score(contracts[key], now)
      ]_vars

StrictlyAscending(deposits) ==
    \A i \in 1..(Len(deposits) - 1) :
        StringLess(deposits[i].contract_id, deposits[i + 1].contract_id)

\* C10 as stated: after any sequence of update_state calls from the empty
\* state, with Delta and State updates mixed, the deposits of the resulting
\* map are strictly ascending by contract_id, with no contract_id twice.
C10_DepositsAscending == state # <<>> => StrictlyAscending(state[1].deposits)

Deposits == MapOf(state).deposits

\* C11 as stated: every total_deposited in the stored map is >= 0 after any
\* sequence of update_state calls, whatever amounts the DEPOSIT events carry.
C11_TotalsNonNegative ==
    \A i \in 1..Len(Deposits) : Deposits[i].total_deposited >= 0

\* C12 as stated: across update_state calls no entry of the map is ever
\* removed and no total_deposited ever decreases.
C12_NeverRemovedNorDecreased ==
    [][\A i \in 1..Len(Deposits) :
           \E j \in 1..Len(MapOf(state').deposits) :
               /\ MapOf(state').deposits[j].contract_id = Deposits[i].contract_id
               /\ MapOf(state').deposits[j].total_deposited >= Deposits[i].total_deposited]_vars

\* C13 as stated: last_ledger_seq of the stored map never decreases across
\* update_state calls, for Delta and State updates alike.
C13_LedgerSeqMonotone ==
    [][MapOf(state').last_ledger_seq >= MapOf(state).last_ledger_seq]_vars

\* the proofs of a call that changed the map, and whether the call accepted a
\* State update
ProofsChanged(trace) == {i \in 1..Len(trace) : trace[i] \in {"merged", "advanced"}}
Replaced(trace) == \E i \in 1..Len(trace) : trace[i] = "replaced"

\* the returns of update_state(parameters, pre, data) that left the present state
ReturnedBy(pre, data) ==
    {out \in update_state(parameters, pre, data) :
        /\ out.state = state
        /\ update_result = [called |-> TRUE, ok |-> out.ok]}

\* C14 as stated: a call in which at least one proof changed the map returns
\* version = input version + 1, however many proofs changed it; a call in
\* which nothing changed returns the version unchanged.
C14_VersionBumpAsStated ==
    \A data \in Batches : \A out \in update_state(parameters, state, data) :
        out.ok =>
            /\ ProofsChanged(out.trace) # {} =>
                   MapOf(out.state).version = MapOf(state).version + 1
            /\ (ProofsChanged(out.trace) = {} /\ ~Replaced(out.trace)) =>
                   MapOf(out.state).version = MapOf(state).version

\* C14: a call that accepted no State update and in which at least one proof
\* changed the map returns version = input version + 1, however many proofs
\* changed it; a call in which nothing changed returns the version unchanged.
C14_VersionBump ==
    \A data \in Batches : \A out \in update_state(parameters, state, data) :
        out.ok =>
            /\ (ProofsChanged(out.trace) # {} /\ ~Replaced(out.trace)) =>
                   MapOf(out.state).version = MapOf(state).version + 1
            /\ (ProofsChanged(out.trace) = {} /\ ~Replaced(out.trace)) =>
                   MapOf(out.state).version = MapOf(state).version

\* two proofs of one call changed the map and the version went from 0 to 1
C14_Witness ==
    \E data \in Batches : \E out \in ReturnedBy(<<>>, data) :
        /\ Cardinality(ProofsChanged(out.trace)) = 2
        /\ MapOf(state).version = 1

Delta(proof) == [kind |-> "Delta", proof |-> proof, incoming |-> DefaultMap]
StateUpdate(incoming) == [kind |-> "State", proof |-> InvalidProof, incoming |-> incoming]

MapsReturned(st, data) == {MapOf(out.state) : out \in update_state(parameters, st, data)}

\* C15: a Delta whose proof has ledger_seq <= last_ledger_seq leaves deposits,
\* last_ledger_seq and version unchanged; the same valid proof submitted twice,
\* in one call or in two successive calls, leaves what submitting it once leaves.
C15_StaleAndIdempotent ==
    parameters.deserializes =>
        \A proof \in Proofs :
            /\ proof.ledger_seq <= MapOf(state).last_ledger_seq =>
                   \A out \in update_state(parameters, state, <<Delta(proof)>>) :
                       out.ok /\ MapOf(out.state) = MapOf(state)
            /\ proof \in ValidProofs =>
                   /\ MapsReturned(state, <<Delta(proof), Delta(proof)>>)
                          = MapsReturned(state, <<Delta(proof)>>)
                   /\ \A once \in update_state(parameters, state, <<Delta(proof)>>) :
                          MapsReturned(once.state, <<Delta(proof)>>) = {MapOf(once.state)}

\* a proof was merged and its second copy in the same call was skipped as stale
C15_Witness ==
    \E proof \in ValidProofs :
        \E out \in ReturnedBy(<<>>, <<Delta(proof), Delta(proof)>>) :
            /\ out.trace = <<"merged", "stale">>
            /\ MapOf(state).last_ledger_seq = proof.ledger_seq
            /\ MapOf(state).version = 1

\* the keys that signed a signature-valid externalize envelope
SignersOf(envelopes) ==
    {envelopes[i].node_id :
        i \in {j \in 1..Len(envelopes) :
                  envelopes[j].pledges = "Externalize" /\ envelopes[j].signature_valid}}

\* the organizations with floor(n/2)+1 of their n validators among the signers
OrgsSigning(params, envelopes) ==
    {o \in 1..Len(params.organizations) :
        Cardinality({i \in 1..Len(params.organizations[o]) :
                        params.organizations[o][i] \in SignersOf(envelopes)})
            >= (Len(params.organizations[o]) \div 2) + 1}

\* C16: a proof changes the map only if at least quorum_org_threshold
\* organizations each have floor(n/2)+1 of their n validators among the signers
\* of signature-valid externalize envelopes; a proof that misses this quorum,
\* or is signed only by keys of no organization, is skipped: the call returns
\* Ok and deposits, last_ledger_seq and version are unchanged.
C16_QuorumRequired ==
    \A proof \in QuorumProofs(parameters) :
        \A out \in update_state(parameters, state, <<Delta(proof)>>) :
            LET signing == Cardinality(OrgsSigning(parameters, proof.scp_envelopes))
            IN  /\ MapOf(out.state) # MapOf(state) =>
                       signing >= parameters.quorum_org_threshold
                /\ (\/ signing < parameters.quorum_org_threshold
                    \/ SignersOf(proof.scp_envelopes) \cap ValidatorsOf(parameters) = {}) =>
                       out.ok /\ MapOf(out.state) = MapOf(state)

\* a proof signed by exactly quorum_org_threshold >= 2 organizations' majorities
\* and by an outsider was applied, and a later proof signed by the outsider
\* alone is skipped
C16_Witness ==
    /\ parameters.quorum_org_threshold >= 2
    /\ \E proof \in QuorumProofs(parameters) :
           /\ Cardinality(OrgsSigning(parameters, proof.scp_envelopes))
                  = parameters.quorum_org_threshold
           /\ Outsider \in SignersOf(proof.scp_envelopes)
           /\ \E out \in ReturnedBy(<<>>, <<Delta(proof)>>) : out.trace = <<"advanced">>
    /\ \E proof \in QuorumProofs(parameters) :
           /\ proof.ledger_seq > MapOf(state).last_ledger_seq
           /\ SignersOf(proof.scp_envelopes) = {Outsider}
           /\ \E out \in ReturnedBy(state, <<Delta(proof)>>) :
                  out.trace = <<"insufficient_quorum">>

\* the proofs of QuorumProofs whose envelopes are all valid externalize
\* statements on the hash of the proof's transaction set
CleanProofs(params) ==
    {proof \in QuorumProofs(params) :
        \A i \in 1..Len(proof.scp_envelopes) :
            proof.scp_envelopes[i] = Externalize(proof.scp_envelopes[i].node_id, 1)}

Passes(proof) ==
    \A out \in update_state(parameters, state, <<Delta(proof)>>) :
        out.ok /\ out.trace = <<"advanced">>

\* C17 as stated: with quorum_org_threshold = 0 a proof passes iff the number
\* of organizations with majority is at least floor(orgs/3)*2+1.
C17_DefaultThresholdAsStated ==
    parameters.quorum_org_threshold = 0 =>
        \A proof \in CleanProofs(parameters) :
            proof.ledger_seq > MapOf(state).last_ledger_seq =>
                (Passes(proof) <=>
                    Cardinality(OrgsSigning(parameters, proof.scp_envelopes))
                        >= ((Len(parameters.organizations) \div 3) * 2) + 1)

\* C17: with quorum_org_threshold = 0 a proof passes iff the number of
\* organizations with majority is at least floor(2*orgs/3)+1.
C17_DefaultThreshold ==
    parameters.quorum_org_threshold = 0 =>
        \A proof \in CleanProofs(parameters) :
            proof.ledger_seq > MapOf(state).last_ledger_seq =>
                (Passes(proof) <=>
                    Cardinality(OrgsSigning(parameters, proof.scp_envelopes))
                        >= ((Len(parameters.organizations) * 2) \div 3) + 1)

\* with two organizations and threshold 0, a proof signed by both was applied
\* and a later proof signed by one alone does not pass
C17_Witness ==
    /\ parameters.quorum_org_threshold = 0
    /\ Len(parameters.organizations) = 2
    /\ \E proof \in CleanProofs(parameters) :
           /\ Cardinality(OrgsSigning(parameters, proof.scp_envelopes)) = 2
           /\ \E out \in ReturnedBy(<<>>, <<Delta(proof)>>) : out.trace = <<"advanced">>
    /\ \E proof \in CleanProofs(parameters) :
           /\ proof.ledger_seq > MapOf(state).last_ledger_seq
           /\ Cardinality(OrgsSigning(parameters, proof.scp_envelopes)) = 1
           /\ \E out \in ReturnedBy(state, <<Delta(proof)>>) :
                  out.trace = <<"insufficient_quorum">>

\* the update items C18 calls malformed, stale or policy-invalid at a map
SkippedItems(map) ==
    {ud \in UpdateData :
        \/ ud.kind = "Malformed"
        \/ ud.kind = "Delta" /\ ud.proof \in InvalidProofs
        \/ ud.kind = "Delta" /\ ud.proof.ledger_seq <= map.last_ledger_seq}

\* C18 as stated: update_state returns an error only when the parameters or the
\* existing state fail to deserialize; a malformed, stale or policy-invalid
\* item is skipped without failing the call, and a valid proof after it in the
\* same batch is still applied.
C18_ErrorsOnlyFromParamsOrState ==
    parameters.deserializes =>
        /\ \A data \in Batches : \A out \in update_state(parameters, state, data) : out.ok
        /\ \A ud \in SkippedItems(MapOf(state)), proof \in ValidProofs :
               proof.ledger_seq > MapOf(state).last_ledger_seq =>
                   \A out \in update_state(parameters, state, <<ud, Delta(proof)>>) :
                       /\ out.ok
                       /\ MapOf(out.state).last_ledger_seq = proof.ledger_seq

\* C19: a proof that passes quorum and hash binding and carries no DEPOSIT
\* event of the hvym contract leaves deposits unchanged, sets last_ledger_seq
\* to its ledger_seq and counts as a change: the call returns version + 1.
C19_EmptyLedgerAdvances ==
    parameters.deserializes =>
        \A proof \in ValidProofs :
            (/\ proof.ledger_seq > MapOf(state).last_ledger_seq
             /\ \A i \in 1..Len(proof.tx_result_metas) :
                    proof.tx_result_metas[i].address # "hvym") =>
                \A out \in update_state(parameters, state, <<Delta(proof)>>) :
                    /\ out.ok
                    /\ MapOf(out.state).deposits = MapOf(state).deposits
                    /\ MapOf(out.state).last_ledger_seq = proof.ledger_seq
                    /\ MapOf(out.state).version = MapOf(state).version + 1

\* in one call a proof's deposit was merged and a later proof, whose only event
\* came from another contract, advanced last_ledger_seq
C19_Witness ==
    /\ MapOf(state).deposits # <<>>
    /\ \E first \in ValidProofs, proof \in ValidProofs :
           /\ proof.tx_result_metas # <<>>
           /\ \E out \in ReturnedBy(<<>>, <<Delta(first), Delta(proof)>>) :
                  out.trace = <<"merged", "advanced">>
           /\ MapOf(state).last_ledger_seq = proof.ledger_seq

\* what the State branch leaves of map for an incoming map, by the stated rule
Accepted(map, incoming) == IF incoming.version > map.version THEN incoming ELSE map

\* C20: a State update replaces the current map iff its version is strictly
\* greater than the current map's version (the call then returns the incoming
\* map, its version bumped by one); with an equal or lower version deposits,
\* last_ledger_seq and version stay unchanged.  Checked for one State update
\* and for two in one call, the second compared with what the first left.
C20_StateReplacesIffNewer ==
    parameters.deserializes =>
        \A incoming \in IncomingMaps :
            /\ \A out \in update_state(parameters, state, <<StateUpdate(incoming)>>) :
                   /\ out.ok
                   /\ MapOf(out.state) =
                          IF incoming.version > MapOf(state).version
                          THEN [incoming EXCEPT !.version = incoming.version + 1]
                          ELSE MapOf(state)
            /\ \A second \in IncomingMaps :
                   \A out \in update_state(parameters, state,
                                           <<StateUpdate(incoming), StateUpdate(second)>>) :
                       LET left == Accepted(Accepted(MapOf(state), incoming), second)
                       IN  /\ out.ok
                           /\ MapOf(out.state) =
                                  IF left = MapOf(state) THEN left
                                  ELSE [left EXCEPT !.version = left.version + 1]

\* a State update of higher version replaced the map, and a State update of an
\* equal or lower version with other contents is then left aside
C20_Witness ==
    /\ \E incoming \in IncomingMaps :
           \E out \in ReturnedBy(<<>>, <<StateUpdate(incoming)>>) :
               out.trace = <<"replaced">> /\ MapOf(state).version = incoming.version + 1
    /\ \E incoming \in IncomingMaps :
           /\ incoming.version <= MapOf(state).version
           /\ incoming.deposits # MapOf(state).deposits
           /\ \E out \in ReturnedBy(state, <<StateUpdate(incoming)>>) : out.trace = <<"kept">>

(***************************************************************************)
(* validate_state of the deposit-index contract.  Here a contract_id is    *)
(* the UTF-8 bytes of a JSON string: a varying head followed by 60 bytes   *)
(* of the digit '1', so that its length is around the 64 the code checks.  *)
(***************************************************************************)
CacheIdle ==
    /\ contracts = <<>>
    /\ current_bytes = 0
    /\ now = 0
    /\ result = NoCall
    /\ removed = <<>>
    /\ unprotected_only = TRUE

\* the characters of the heads: '+', '1', 'F', 'f' and the two-byte U+00E9
Utf8Chars == {<<43>>, <<49>>, <<70>>, <<102>>, <<195, 169>>}

\* the strings of len bytes over Utf8Chars
RECURSIVE Utf8Strings(_)
Utf8Strings(len) ==
    IF len = 0 THEN {<<>>}
    ELSE UNION {{c \o rest : rest \in Utf8Strings(len - Len(c))} :
                   c \in {x \in Utf8Chars : Len(x) <= len}}

Padding == [i \in 1..60 |-> 49]

\* contract_id strings of 62, 63 and 64 bytes
IdStrings == {head \o Padding : head \in Utf8Strings(2) \cup Utf8Strings(3) \cup Utf8Strings(4)}

\* str::is_char_boundary at byte offset i (from 0)
is_char_boundary(s, i) ==
    \/ i = 0
    \/ i = Len(s)
    \/ i < Len(s) /\ (s[i + 1] < 128 \/ s[i + 1] >= 192)

\* char::to_digit(16) succeeds: 0-9, A-F, a-f
IsHexDigit(b) == b \in (48..57) \cup (65..70) \cup (97..102)

\* u8::from_str_radix(src, 16) succeeds: an optional leading '+', then hex
\* digits of either case (two digits never overflow a u8)
from_str_radix(src) ==
    /\ src # <<>>
    /\ LET digits == IF src[1] = 43 THEN Tail(src) ELSE src
       IN  /\ digits # <<>>
           /\ \A i \in 1..Len(digits) : IsHexDigit(digits[i])

\* hex_decode from byte offset i on: "Panic" when the slice s[i..i+2] does not
\* lie on char boundaries, "Err" on the first pair that does not parse, else
\* "Ok"
RECURSIVE DecodePairs(_, _)
DecodePairs(s, i) ==
    IF i >= Len(s) THEN "Ok"
    ELSE IF ~(is_char_boundary(s, i) /\ is_char_boundary(s, i + 2)) THEN "Panic"
    ELSE IF ~from_str_radix(SubSeq(s, i + 1, i + 2)) THEN "Err"
    ELSE DecodePairs(s, i + 2)

hex_decode(s) == IF Len(s) % 2 # 0 THEN "Err" ELSE DecodePairs(s, 0)

hex_decode_32(s) ==
    IF hex_decode(s) # "Ok" THEN hex_decode(s)
    ELSE IF Len(s) \div 2 = 32 THEN "Ok" ELSE "Err"

\* String <=
StringLessEq(a, b) == a = b \/ StringLess(a, b)

\* the second loop of validate_state, from entry i on
RECURSIVE ValidateEntries(_, _)
ValidateEntries(deposits, i) ==
    IF i > Len(deposits) THEN "Valid"
    ELSE IF deposits[i].total_deposited < 0 THEN "Invalid"
    ELSE IF Len(deposits[i].contract_id) # 64 THEN "Invalid"
    ELSE IF hex_decode_32(deposits[i].contract_id) = "Panic" THEN "Panic"
    ELSE IF hex_decode_32(deposits[i].contract_id) = "Err" THEN "Invalid"
    ELSE ValidateEntries(deposits, i + 1)

\* validate_state on a state that is empty or parses as a DepositMap
validate_state(st) ==
    IF st = <<>> THEN "Valid"
    ELSE IF \E i \in 2..Len(st[1].deposits) :
                StringLessEq(st[1].deposits[i].contract_id,
                             st[1].deposits[i - 1].contract_id)
    THEN "Invalid"
    ELSE ValidateEntries(st[1].deposits, 1)

\* the contract_ids of two-entry states: three well-formed ones, one in upper
\* case, and one that is too short
PairIds ==
    {head \o Padding :
        head \in {<<49, 49, 49, 49>>, <<49, 49, 102, 102>>, <<102, 102, 49, 49>>,
                  <<70, 70, 49, 49>>, <<49, 49, 49>>}}

TotalChoices == {-1, 0, 1}

\* the states validate_state is given: the empty one, and maps of one entry with
\* any id of IdStrings or of two entries with ids of PairIds
StoredStates ==
    {<<>>}
    \cup {<<[version |-> 1, last_ledger_seq |-> 1, deposits |-> deposits]>> :
            deposits \in
                {<<>>}
                \cup {<<DepositEntry(id, total, 1)>> :
                         id \in IdStrings, total \in TotalChoices}
                \cup {<<DepositEntry(a, ta, 1), DepositEntry(b, tb, 1)>> :
                         a \in PairIds, b \in PairIds,
                         ta \in TotalChoices, tb \in TotalChoices}}

DepositIdle ==
    /\ parameters = DepositParams
    /\ update_result = NoUpdate

ValidateState ==
    /\ returned' = [op |-> "validate_state", verdict |-> validate_state(state)]
    /\ UNCHANGED <<cacheVars, diVars, oracleVars, twin, peer_state>>

InitValidate ==
    /\ CacheIdle
    /\ DepositIdle
    /\ state \in StoredStates
    /\ OthersIdle

NextValidate == ValidateState

SpecValidate == InitValidate /\ [][NextValidate]_vars

\* a contract_id of 64 lower-case hex characters
LowerHex64(id) ==
    /\ Len(id) = 64
    /\ \A i \in 1..Len(id) : id[i] \in (48..57) \cup (97..102)

\* C21 as stated: validate_state returns Valid for the empty state; for a
\* non-empty state that parses it returns Valid exactly when the contract_ids
\* are strictly ascending, each is 64 lower-case hex characters and each
\* total_deposited is >= 0, and returns Invalid, never an error, otherwise.
C21_ValidateVerdict ==
    returned.op = "validate_state" =>
        returned.verdict =
            IF state = <<>> THEN "Valid"
            ELSE IF /\ StrictlyAscending(state[1].deposits)
                    /\ \A i \in 1..Len(state[1].deposits) :
                           /\ LowerHex64(state[1].deposits[i].contract_id)
                           /\ state[1].deposits[i].total_deposited >= 0
                 THEN "Valid"
                 ELSE "Invalid"

(***************************************************************************)
(* summarize_state and get_state_delta of the deposit-index contract.      *)
(***************************************************************************)
DepositMapSummary(version, entry_count, last_ledger_seq) ==
    [version |-> version, entry_count |-> entry_count,
     last_ledger_seq |-> last_ledger_seq]

summarize_state(st) ==
    IF st = <<>> THEN DepositMapSummary(0, 0, 0)
    ELSE DepositMapSummary(st[1].version, Len(st[1].deposits), st[1].last_ledger_seq)

\* get_state_delta: Ok with the delta bytes (<<>> for none, the state for the
\* full state), or the error of deserializing empty state bytes as a DepositMap
get_state_delta(st, summary) ==
    IF st = <<>> /\ summary.version = 0 THEN [ok |-> TRUE, delta |-> <<>>]
    ELSE IF st = <<>> THEN [ok |-> FALSE, delta |-> <<>>]
    ELSE IF st[1].version = summary.version THEN [ok |-> TRUE, delta |-> <<>>]
    ELSE [ok |-> TRUE, delta |-> st]

\* the states a node may hold, and the summaries a peer may send
HeldStates ==
    {<<>>} \cup {<<m>> : m \in [version : 0..MaxVersion, last_ledger_seq : 0..MaxLedger,
                                deposits : IncomingDeposits]}

Summaries == {summarize_state(st) : st \in HeldStates}

SummarizeState ==
    /\ returned' = [op |-> "summarize_state", summary |-> summarize_state(state)]
    /\ UNCHANGED <<cacheVars, diVars, oracleVars, twin, peer_state>>

GetStateDelta(summary) ==
    /\ returned' = [op |-> "get_state_delta", summary |-> summary,
                    out |-> get_state_delta(state, summary)]
    /\ UNCHANGED <<cacheVars, diVars, oracleVars, twin, peer_state>>

InitSummary ==
    /\ CacheIdle
    /\ DepositIdle
    /\ state \in HeldStates
    /\ OthersIdle

NextSummary ==
    \/ SummarizeState
    \/ \E summary \in Summaries : GetStateDelta(summary)

SpecSummary == InitSummary /\ [][NextSummary]_vars

\* C22 as stated: get_state_delta returns an empty delta when the state's
\* version equals the summary's version and the full state bytes otherwise,
\* for every state including the empty one; the delta against the state's own
\* summary is empty; the empty state summarizes to version 0, entry_count 0,
\* last_ledger_seq 0.
C22_DeltaBySummaryVersion ==
    /\ returned.op = "get_state_delta" =>
           /\ returned.out.ok
           /\ returned.out.delta =
                  IF MapOf(state).version = returned.summary.version THEN <<>> ELSE state
    /\ get_state_delta(state, summarize_state(state)) = [ok |-> TRUE, delta |-> <<>>]
    /\ (returned.op = "summarize_state" /\ state = <<>>) =>
           returned.summary = DepositMapSummary(0, 0, 0)

(***************************************************************************)
(* More properties of the deposit-index contract's update_state.           *)
(***************************************************************************)
DepositEvent(contract_id, amount) ==
    [address |-> "hvym", contract_id |-> contract_id, amount |-> amount]

ProofOf(ledger_seq, metas) == DepositProof(ledger_seq, "none", QuorumEnvelopes, 1, metas)

Max(a, b) == IF a >= b THEN a ELSE b

\* new is old with one deposit of amount to contract_id at ledger merged in, as
\* C23 describes it
MergedAsStated(old, new, contract_id, amount, ledger) ==
    IF \E i \in 1..Len(old) : old[i].contract_id = contract_id
    THEN \E i \in 1..Len(old) :
             /\ old[i].contract_id = contract_id
             /\ new = [old EXCEPT ![i] =
                          DepositEntry(contract_id, old[i].total_deposited + amount,
                                       Max(ledger, old[i].last_ledger))]
    ELSE \E j \in 1..(Len(old) + 1) :
             new = InsertAt(old, j, DepositEntry(contract_id, amount, ledger))

\* C23 as stated: merging the deposit of an accepted proof adds the amount to
\* the total_deposited of an existing contract_id and raises its last_ledger to
\* the proof's ledger, inserts a new entry with the amount for an absent
\* contract_id, and sets last_ledger_seq to the proof's ledger_seq; for two
\* deposits to distinct contract_ids in one proof the resulting map does not
\* depend on the order of the events.
C23_MergeAsStated ==
    parameters.deserializes =>
        \A ledger \in 1..MaxLedger :
            ledger > MapOf(state).last_ledger_seq =>
                /\ \A id \in ContractIds, amount \in AmountChoices :
                       \A out \in update_state(parameters, state,
                                      <<Delta(ProofOf(ledger, <<DepositEvent(id, amount)>>))>>) :
                           /\ out.ok
                           /\ MapOf(out.state).last_ledger_seq = ledger
                           /\ MergedAsStated(MapOf(state).deposits, MapOf(out.state).deposits,
                                             id, amount, ledger)
                /\ \A a \in ContractIds, b \in ContractIds,
                      amount_a \in AmountChoices, amount_b \in AmountChoices :
                       a # b =>
                       LET first == DepositEvent(a, amount_a)
                           second == DepositEvent(b, amount_b)
                           maps == MapsReturned(state, <<Delta(ProofOf(ledger, <<first, second>>))>>)
                       IN  /\ Cardinality(maps) = 1
                           /\ maps = MapsReturned(state,
                                         <<Delta(ProofOf(ledger, <<second, first>>))>>)

(***************************************************************************)
(* The proof relayer task (ring/hosting/oracle.rs, relay_deposit_proofs).  *)
(* Durations are in milliseconds.  The proof source and the network are    *)
(* the environment: a query fails or returns any list of ledger sequences, *)
(* a fetch and an UPDATE succeed or fail.                                  *)
(***************************************************************************)
RECURSIVE Pow2(_)
Pow2(n) == IF n = 0 THEN 1 ELSE 2 * Pow2(n - 1)

Min(a, b) == IF a <= b THEN a ELSE b

\* a backoff that is the base after the first failure and doubles from there
relay_backoff_from_base(failures) ==
    Min(BASE_BACKOFF_MS * Pow2(failures - 1), RELAY_MAX_BACKOFF_MS)

\* oracle.rs:373-375, below the failure counts where the u64 product overflows
relay_backoff(failures) ==
    Min(BASE_BACKOFF_MS * Pow2(failures), RELAY_MAX_BACKOFF_MS)

\* GlobalRng::random_range(0..=(backoff_ms / 4)): both ends and a value between
JitterChoices(backoff_ms) == {0, backoff_ms \div 8, backoff_ms \div 4}

\* what the source's query may return: every list of distinct ledger sequences
LedgerLists ==
    {seqs \in SeqsUpTo(1..MaxLedgerSeq, MaxLedgerSeq) :
        \A i \in 1..Len(seqs), j \in 1..Len(seqs) : i # j => seqs[i] # seqs[j]}

Range(seq) == {seq[i] : i \in 1..Len(seq)}

\* deposit_index_contract_key() is None: the task returns at once
RelayStart(configured) ==
    /\ relayer.pc = "start"
    /\ relayer' = [relayer EXCEPT !.pc = IF configured THEN "wait" ELSE "stopped",
                                  !.last = IF configured THEN "started" ELSE "not_configured"]
    /\ UNCHANGED <<cacheVars, diVars, returned, subscriber_task, twin, peer_state>>

\* one round of the wait for the OpManager; attempt is a local of that loop
RelayWaitOpManager(available) ==
    /\ relayer.pc = "wait"
    /\ relayer' =
           IF available
           THEN [relayer EXCEPT !.pc = "tick", !.attempt = 0, !.last = "op_manager"]
           ELSE IF relayer.attempt + 1 > OP_MANAGER_MAX_RETRIES
           THEN [relayer EXCEPT !.attempt = relayer.attempt + 1,
                                !.pc = "stopped", !.last = "gave_up"]
           ELSE [relayer EXCEPT !.attempt = relayer.attempt + 1, !.last = "waited"]
    /\ UNCHANGED <<cacheVars, diVars, returned, subscriber_task, twin, peer_state>>

\* one tick up to the start of the batch: the backoff sleep, then the query
RelayQuery(ok, seqs, jitter) ==
    /\ relayer.pc = "tick"
    /\ ok \/ relayer.consecutive_failures < MaxFailures
    /\ LET slept == IF relayer.consecutive_failures > 0
                    THEN relayer.backoff_ms + jitter ELSE 0
           woke == [relayer EXCEPT !.slept = slept,
                                   !.slept_failures = relayer.consecutive_failures,
                                   !.submitted = <<>>]
       IN  relayer' =
               IF ~ok
               THEN [woke EXCEPT
                        !.consecutive_failures = relayer.consecutive_failures + 1,
                        !.backoff_ms = relay_backoff(relayer.consecutive_failures + 1),
                        !.last = "query_failed"]
               ELSE [woke EXCEPT
                        !.consecutive_failures = 0,
                        !.backoff_ms = BASE_BACKOFF_MS,
                        !.pending = seqs,
                        !.unsubmitted = relayer.unsubmitted \cup Range(seqs),
                        !.pc = IF seqs = <<>> THEN "tick" ELSE "batch",
                        !.last = "query_ok"]
    /\ UNCHANGED <<cacheVars, diVars, returned, subscriber_task, twin, peer_state>>

\* mutant of AfterFailedUpdate
ContinueAfterFailedUpdate(pending) == Tail(pending)

\* oracle.rs:437: break
AfterFailedUpdate(pending) == <<>>

\* oracle.rs:397, 410: continue, last_processed_ledger untouched
CursorAfterFetchFailure(r, ledger_seq) == r.last_processed_ledger

\* one iteration of the loop over ledger_seqs: fetch, serialize, UPDATE
RelayProcess(fetched, updated) ==
    /\ relayer.pc = "batch"
    /\ LET ledger_seq == Head(relayer.pending)
           rest == IF fetched /\ ~updated
                   THEN AfterFailedUpdate(relayer.pending)
                   ELSE Tail(relayer.pending)
           settled == IF fetched /\ relayer.owed.failed = ledger_seq
                      THEN [failed |-> 0, later |-> {}] ELSE relayer.owed
       IN  relayer' =
               [relayer EXCEPT
                   !.pending = rest,
                   !.pc = IF rest = <<>> THEN "tick" ELSE "batch",
                   !.last_processed_ledger =
                       IF ~fetched THEN CursorAfterFetchFailure(relayer, ledger_seq)
                       ELSE IF updated THEN ledger_seq
                       ELSE relayer.last_processed_ledger,
                   !.submitted =
                       IF fetched
                       THEN Append(relayer.submitted,
                                   [ledger_seq |-> ledger_seq, ok |-> updated])
                       ELSE relayer.submitted,
                   !.owed =
                       IF fetched /\ ~updated
                       THEN [failed |-> ledger_seq,
                             later |-> Range(Tail(relayer.pending))]
                       ELSE settled,
                   !.unsubmitted =
                       IF fetched /\ updated THEN relayer.unsubmitted \ {ledger_seq}
                       ELSE relayer.unsubmitted,
                   !.last = IF ~fetched THEN "fetch_failed"
                            ELSE IF updated THEN "update_ok" ELSE "update_failed"]
    /\ UNCHANGED <<cacheVars, diVars, returned, subscriber_task, twin, peer_state>>

InitRelay ==
    /\ CacheIdle
    /\ DepositIdle
    /\ state = <<>>
    /\ OthersIdle

NextRelay ==
    \/ \E configured \in BOOLEAN : RelayStart(configured)
    \/ \E available \in BOOLEAN : RelayWaitOpManager(available)
    \/ \E ok \in BOOLEAN, seqs \in LedgerLists :
           \E jitter \in JitterChoices(relayer.backoff_ms) : RelayQuery(ok, seqs, jitter)
    \/ \E fetched \in BOOLEAN, updated \in BOOLEAN : RelayProcess(fetched, updated)

SpecRelay == InitRelay /\ [][NextRelay]_vars

(***************************************************************************)
(* Claims about the proof relayer.                                         *)
(***************************************************************************)
\* a step of the loop over ledger_seqs
BatchStep == relayer.pc = "batch" /\ relayer' # relayer

\* the cursor is set to a sequence only after its UPDATE succeeded
CursorOnlyAfterUpdate ==
    BatchStep =>
        /\ relayer'.last = "update_ok" =>
               relayer'.last_processed_ledger = Head(relayer.pending)
        /\ relayer'.last # "update_ok" =>
               relayer'.last_processed_ledger = relayer.last_processed_ledger

\* a failed fetch skips that sequence only
FetchFailureSkipsOne ==
    BatchStep /\ relayer'.last = "fetch_failed" =>
        /\ relayer'.pending = Tail(relayer.pending)
        /\ relayer'.submitted = relayer.submitted

\* a failed UPDATE ends the batch: nothing is submitted after it in that tick
FailedUpdateEndsBatch ==
    /\ BatchStep /\ relayer'.last = "update_failed" =>
           relayer'.pending = <<>> /\ relayer'.pc = "tick"
    /\ \A i \in 1..Len(relayer'.submitted) :
           ~relayer'.submitted[i].ok => i = Len(relayer'.submitted)

\* no sequence that followed a failed one in its batch is submitted before
\* the failed one has been submitted again
NoLaterBeforeRetry ==
    BatchStep /\ relayer'.last \in {"update_ok", "update_failed"} =>
        Head(relayer.pending) \notin relayer.owed.later

C25_AscendingLedgerOrder ==
    [][/\ relayer'.last_processed_ledger >= relayer.last_processed_ledger
       /\ \A i \in 1..Len(relayer'.submitted), j \in 1..Len(relayer'.submitted) :
              i < j => relayer'.submitted[i].ledger_seq
                           < relayer'.submitted[j].ledger_seq]_vars

\* C26: the delay before the query that follows k >= 1 consecutive failed
\* queries is a backoff of min(1 s * 2^(k-1), 5 min) plus a jitter of at most a
\* quarter of it, and a successful query returns the backoff to the base.
C26_BackoffStartsAtBase ==
    /\ relayer.slept_failures = 0 => relayer.slept = 0
    /\ relayer.slept_failures > 0 =>
           LET backoff == relay_backoff_from_base(relayer.slept_failures)
           IN  /\ backoff <= RELAY_MAX_BACKOFF_MS
               /\ relayer.slept \in backoff..(backoff + backoff \div 4)
    /\ relayer.last = "query_ok" =>
           relayer.backoff_ms = BASE_BACKOFF_MS /\ relayer.consecutive_failures = 0

\* what the code does: the backoff after k failures is min(1 s * 2^k, 5 min)
BackoffAsCoded ==
    /\ relayer.slept_failures = 0 => relayer.slept = 0
    /\ relayer.slept_failures > 0 =>
           LET backoff == relay_backoff(relayer.slept_failures)
           IN  /\ backoff <= RELAY_MAX_BACKOFF_MS
               /\ relayer.slept \in backoff..(backoff + backoff \div 4)
    /\ relayer.last = "query_ok" =>
           relayer.backoff_ms = BASE_BACKOFF_MS /\ relayer.consecutive_failures = 0

(***************************************************************************)
(* The deposit-index subscriber task (ring/hosting/oracle.rs,              *)
(* subscribe_to_deposit_index).  The environment decides whether the       *)
(* OpManager is available and whether a SUBSCRIBE succeeds.                *)
(***************************************************************************)
\* mutant of subscribe_backoff
subscribe_backoff_uncapped(backoff_ms) == backoff_ms * 2

\* oracle.rs:289
subscribe_backoff(backoff_ms) == Min(backoff_ms * 2, MAX_BACKOFF_MS)

\* deposit_index_instance_id() is None: the task returns at once
SubscribeStart(configured) ==
    /\ subscriber_task.pc = "start"
    /\ subscriber_task' =
           [subscriber_task EXCEPT !.pc = IF configured THEN "wait" ELSE "stopped",
                                   !.last = IF configured THEN "started"
                                            ELSE "not_configured"]
    /\ UNCHANGED <<cacheVars, diVars, returned, relayer, twin, peer_state>>

\* one round of the wait for the OpManager
SubscribeWaitOpManager(available) ==
    /\ subscriber_task.pc = "wait"
    /\ subscriber_task' =
           IF available
           THEN [subscriber_task EXCEPT !.pc = "subscribe", !.last = "op_manager"]
           ELSE IF subscriber_task.attempt + 1 > OP_MANAGER_MAX_RETRIES
           THEN [subscriber_task EXCEPT !.attempt = subscriber_task.attempt + 1,
                                        !.pc = "gave_up", !.last = "gave_up"]
           ELSE [subscriber_task EXCEPT !.attempt = subscriber_task.attempt + 1,
                                        !.slept = 1000, !.last = "waited"]
    /\ UNCHANGED <<cacheVars, diVars, returned, relayer, twin, peer_state>>

\* one round of the retry loop: SUBSCRIBE, and on failure the backoff sleep
RequestSubscribe(ok, jitter) ==
    /\ subscriber_task.pc = "subscribe"
    /\ ok \/ subscriber_task.failures < MaxSubscribeFailures
    /\ subscriber_task' =
           IF ok
           THEN [subscriber_task EXCEPT !.pc = "subscribed", !.last = "subscribed"]
           ELSE [subscriber_task EXCEPT
                    !.failures = subscriber_task.failures + 1,
                    !.slept = subscriber_task.backoff_ms + jitter,
                    !.backoff_ms = subscribe_backoff(subscriber_task.backoff_ms),
                    !.last = "subscribe_failed"]
    /\ UNCHANGED <<cacheVars, diVars, returned, relayer, twin, peer_state>>

InitSubscribe ==
    /\ CacheIdle
    /\ DepositIdle
    /\ state = <<>>
    /\ OthersIdle

NextSubscribe ==
    \/ \E configured \in BOOLEAN : SubscribeStart(configured)
    \/ \E available \in BOOLEAN : SubscribeWaitOpManager(available)
    \/ \E ok \in BOOLEAN :
           \E jitter \in JitterChoices(subscriber_task.backoff_ms) :
               RequestSubscribe(ok, jitter)

SpecSubscribe == InitSubscribe /\ [][NextSubscribe]_vars

\* the backoff in force after a number of failed SUBSCRIBEs
BackoffAfter(failures) == Min(1000 * Pow2(failures), MAX_BACKOFF_MS)

\* what holds of the subscriber after each of its steps
SubscriberAsStated(s) ==
    /\ s.backoff_ms = BackoffAfter(s.failures)
    /\ s.backoff_ms <= MAX_BACKOFF_MS
    /\ s.last = "subscribe_failed" =>
           /\ s.pc = "subscribe"
           /\ LET backoff == BackoffAfter(s.failures - 1)
              IN  s.slept \in backoff..(backoff + backoff \div 4)
    /\ s.last = "waited" => s.slept = 1000 /\ s.pc = "wait"
    /\ s.pc = "gave_up" <=> s.attempt > OP_MANAGER_MAX_RETRIES
    /\ s.pc = "gave_up" => s.failures = 0 /\ s.attempt = OP_MANAGER_MAX_RETRIES + 1
    /\ s.pc = "subscribed" <=> s.last = "subscribed"

\* C27: after each failed SUBSCRIBE the subscriber sleeps backoff plus a jitter
\* in [0, backoff/4] and retries, where backoff starts at 1 s, doubles after
\* each failure and is capped at 60 s; it takes no step after its first
\* successful SUBSCRIBE; and it gives up, having sent no SUBSCRIBE, exactly
\* when the OpManager was unavailable at each of its checks, one second apart.
C27_SubscriberBackoff ==
    [][/\ subscriber_task.pc \notin {"subscribed", "gave_up", "stopped"}
       /\ SubscriberAsStated(subscriber_task')]_vars

\* the subscriber subscribed after enough failures for the cap to apply
C27_Witness ==
    /\ subscriber_task.pc = "subscribed"
    /\ subscriber_task.failures >= 7
    /\ subscriber_task.backoff_ms = MAX_BACKOFF_MS
    /\ subscriber_task.slept >= MAX_BACKOFF_MS

(***************************************************************************)
(* The subscriber hook (ring/hosting/deposit_index.rs,                     *)
(* check_deposit_index_update).  u64 is modelled U64Bits wide and i128     *)
(* twice as wide; a contract instance id is its 32 bytes, and hex strings  *)
(* are their ASCII bytes.                                                  *)
(***************************************************************************)
U64_MAX == Pow2(U64Bits) - 1
I128_MAX == Pow2(2 * U64Bits - 1) - 1
I128_MIN == 0 - Pow2(2 * U64Bits - 1)

\* `as u64`: the low bits of the two's complement value
as_u64(x) == x % Pow2(U64Bits)

\* mutant of to_u64
to_u64_wrapping(total_deposited) ==
    IF total_deposited < 0 THEN 0 ELSE as_u64(total_deposited)

\* deposit_index.rs:158-164
to_u64(total_deposited) ==
    IF total_deposited < 0 THEN 0
    ELSE IF total_deposited > U64_MAX THEN U64_MAX
    ELSE as_u64(total_deposited)

\* "0123456789abcdef"
HEX_CHARS_LOWER == <<48, 49, 50, 51, 52, 53, 54, 55, 56, 57, 97, 98, 99, 100, 101, 102>>

\* hex::encode
hex_encode(bytes) ==
    [i \in 1..(2 * Len(bytes)) |->
        LET b == bytes[(i + 1) \div 2]
        IN  HEX_CHARS_LOWER[(IF i % 2 = 1 THEN b \div 16 ELSE b % 16) + 1]]

\* str::to_uppercase on ASCII
to_uppercase(s) == [i \in 1..Len(s) |-> IF s[i] \in 97..122 THEN s[i] - 32 ELSE s[i]]

InstanceId(seed) == [i \in 1..32 |-> seed]

\* tests::make_key
make_key(seed) == [id |-> InstanceId(seed), code |-> InstanceId((seed + 1) % 256)]

\* deposit_index_instance_id() when LEPUS_DEPOSIT_INDEX_KEY is unset or unusable
NoInstanceId == <<>>

\* serde_json::from_slice::<DepositMap>: every field is required
ParsesAsDepositMap(state_bytes) ==
    /\ state_bytes # <<>>
    /\ DOMAIN state_bytes[1] = {"version", "last_ledger_seq", "deposits"}

\* hosted_lookup.get: the last key inserted under that hex id
hosted_lookup(hosted_keys, contract_id) ==
    LET found == {i \in 1..Len(hosted_keys) : hex_encode(hosted_keys[i].id) = contract_id}
    IN  IF found = {} THEN <<>>
        ELSE <<hosted_keys[CHOOSE i \in found : \A j \in found : j <= i]>>

RECURSIVE MatchEntries(_, _, _)
MatchEntries(deposits, hosted_keys, i) ==
    IF i > Len(deposits) THEN <<>>
    ELSE LET hit == hosted_lookup(hosted_keys, deposits[i].contract_id)
             rest == MatchEntries(deposits, hosted_keys, i + 1)
         IN  IF hit = <<>> THEN rest
             ELSE <<[key |-> hit[1], xlm |-> to_u64(deposits[i].total_deposited)]>> \o rest

\* whether update_fn is called, and with what
check_deposit_index_update(expected_id, key, state_bytes, hosted_keys) ==
    IF expected_id = NoInstanceId \/ key.id # expected_id
           \/ ~ParsesAsDepositMap(state_bytes)
    THEN [called |-> FALSE, updates |-> <<>>]
    ELSE LET updates == MatchEntries(state_bytes[1].deposits, hosted_keys, 1)
         IN  [called |-> updates # <<>>, updates |-> updates]

IndexSeed == 9
HostedSeeds == {1, 171}
OtherSeed == 2

\* the ids a map may name: hosted ones, one in upper case, one not hosted
MapContractIds ==
    {hex_encode(InstanceId(seed)) : seed \in HostedSeeds \cup {OtherSeed}}
    \cup {to_uppercase(hex_encode(InstanceId(171)))}

Amounts == {I128_MIN, -1, 0, U64_MAX, U64_MAX + 1, I128_MAX}

IndexEntries == {DepositEntry(id, total, 1) : id \in MapContractIds, total \in Amounts}

\* the bytes handed to the hook: empty, JSON that lacks fields, or a map
IndexStates ==
    {<<>>, <<[version |-> 1]>>}
    \cup {<<[version |-> 1, last_ledger_seq |-> 1, deposits |-> deposits]>> :
            deposits \in SeqsUpTo(IndexEntries, 2)}

CheckDepositIndexUpdate(expected_id, key, hosted_keys) ==
    /\ returned' =
           [op |-> "check_deposit_index_update", expected_id |-> expected_id,
            key |-> key, hosted_keys |-> hosted_keys,
            update_fn |-> check_deposit_index_update(expected_id, key, state, hosted_keys)]
    /\ UNCHANGED <<cacheVars, diVars, oracleVars, twin, peer_state>>

InitCheckUpdate ==
    /\ CacheIdle
    /\ DepositIdle
    /\ state \in IndexStates
    /\ OthersIdle

NextCheckUpdate ==
    \E expected_id \in {NoInstanceId, InstanceId(IndexSeed)},
       key \in {make_key(IndexSeed), make_key(1)},
       hosted_keys \in SeqsUpTo({make_key(seed) : seed \in HostedSeeds}, 2) :
        CheckDepositIndexUpdate(expected_id, key, hosted_keys)

SpecCheckUpdate == InitCheckUpdate /\ [][NextCheckUpdate]_vars

\* total_deposited brought into [0, u64::MAX]
Clamped(total_deposited) ==
    IF total_deposited < 0 THEN 0
    ELSE IF total_deposited > U64_MAX THEN U64_MAX
    ELSE total_deposited

\* the entries of the map that name a hosted key by its hex id
HostedEntries(deposits, hosted_keys) ==
    {i \in 1..Len(deposits) :
        \E hk \in Range(hosted_keys) : hex_encode(hk.id) = deposits[i].contract_id}

\* C28: update_fn is called only when the updated key is the configured
\* deposit-index instance id and the state parses as a deposit map; it then
\* receives exactly the hosted keys whose hex id appears in the map, each with
\* total_deposited clamped into [0, u64::MAX]; for another key, for malformed
\* state and for an empty intersection it is not called.
C28_HookUpdatesHostedKeys ==
    returned.op = "check_deposit_index_update" =>
        LET out == returned.update_fn
            hosted_keys == returned.hosted_keys
            ours == /\ returned.expected_id # NoInstanceId
                    /\ returned.key.id = returned.expected_id
                    /\ ParsesAsDepositMap(state)
            deposits == IF ours THEN state[1].deposits ELSE <<>>
            hits == HostedEntries(deposits, hosted_keys)
        IN  /\ out.called <=> ours /\ hits # {}
            /\ ~out.called => out.updates = <<>>
            /\ out.called =>
                   /\ Len(out.updates) = Cardinality(hits)
                   /\ {u.key : u \in Range(out.updates)}
                          = {hk \in Range(hosted_keys) :
                                \E i \in hits : hex_encode(hk.id) = deposits[i].contract_id}
                   /\ \A i \in hits : \E u \in Range(out.updates) :
                          /\ hex_encode(u.key.id) = deposits[i].contract_id
                          /\ u.xlm = Clamped(deposits[i].total_deposited)
                   /\ \A u \in Range(out.updates) : \E i \in hits :
                          /\ hex_encode(u.key.id) = deposits[i].contract_id
                          /\ u.xlm = Clamped(deposits[i].total_deposited)

\* the hook passed on one of two entries, its total clamped down to u64::MAX
C28_Witness ==
    /\ returned.op = "check_deposit_index_update"
    /\ returned.update_fn.called
    /\ Len(returned.update_fn.updates) = 1
    /\ Len(state[1].deposits) = 2
    /\ \E i \in 1..2 :
           /\ state[1].deposits[i].total_deposited > U64_MAX
           /\ hex_encode(returned.update_fn.updates[1].key.id)
                  = state[1].deposits[i].contract_id
    /\ returned.update_fn.updates[1].xlm = U64_MAX

(***************************************************************************)
(* The identity envelope (ring/hosting/identity.rs) and the datapod        *)
(* contract that validates it (contracts/datapod/src/lib.rs).  State bytes *)
(* are sequences of bytes; byte offset n of the code is index n + 1 here.  *)
(* Ed25519 is taken as an ideal signature scheme over keys that belong to  *)
(* a signing key: the one signature that verifies for a key and a message  *)
(* is the one made with that key over that message.                        *)
(***************************************************************************)
Bytes32(b) == [i \in 1..32 |-> b]

PUBLIC_RECIPIENT == Bytes32(0)

\* the seeds of the signing keys in play
SigningSeeds == {42, 99}

\* SigningKey::verifying_key().to_bytes()
verifying_key(seed) == Bytes32(seed)

\* VerifyingKey::from_bytes succeeds
IsVerifyingKey(bytes) == \E seed \in SigningSeeds : bytes = verifying_key(seed)

\* Signer::sign, as 64 bytes that determine the key and the message
sign(pubkey, message) ==
    [i \in 1..64 |->
        IF i = 1 THEN pubkey[1]
        ELSE IF i = 2 THEN Len(message)
        ELSE IF i - 2 <= Len(message) THEN message[i - 2]
        ELSE 0]

\* mutant of verify
verify_first_half(pubkey, message, signature) ==
    SubSeq(signature, 1, 32) = SubSeq(sign(pubkey, message), 1, 32)

\* Verifier::verify
verify(pubkey, message, signature) == signature = sign(pubkey, message)

\* the slice state[from..to] of the code
Slice(bytes, from, to) == SubSeq(bytes, from + 1, to)

\* None is <<>>, Some(e) is <<e>>
parse_envelope(st) ==
    IF Len(st) < ENVELOPE_HEADER_SIZE THEN <<>>
    ELSE IF st[1] # ENVELOPE_VERSION THEN <<>>
    ELSE <<[creator_pubkey |-> Slice(st, 1, 33),
            creator_signature |-> Slice(st, 33, 97),
            recipient_pubkey |-> Slice(st, 97, 129),
            payload_offset |-> ENVELOPE_HEADER_SIZE]>>

\* identity.rs:100-103
signed_message(envelope, st) ==
    envelope.recipient_pubkey \o Slice(st, envelope.payload_offset, Len(st))

verify_creator_signature(envelope, st) ==
    IF ~IsVerifyingKey(envelope.creator_pubkey) THEN FALSE
    ELSE verify(envelope.creator_pubkey, signed_message(envelope, st),
                envelope.creator_signature)

\* mutant of check_subscriber
check_subscriber_exact(recipient, node_pubkey) == recipient = node_pubkey

\* identity.rs:117-119
check_subscriber(recipient, node_pubkey) ==
    recipient = PUBLIC_RECIPIENT \/ recipient = node_pubkey

\* get_node_stellar_pubkey() is an input: <<>> when LEPUS_STELLAR_PUBKEY is
\* unset or unusable, else <<key>>
verify_identity(st, node_pubkey) ==
    LET parsed == parse_envelope(st)
    IN  IF parsed = <<>>
        THEN [creator_pubkey |-> <<>>, creator_verified |-> FALSE,
              subscriber_pubkey |-> <<>>, subscriber_verified |-> FALSE,
              recipient_pubkey |-> <<>>]
        ELSE LET envelope == parsed[1]
             IN  [creator_pubkey |-> <<envelope.creator_pubkey>>,
                  creator_verified |-> verify_creator_signature(envelope, st),
                  subscriber_pubkey |-> node_pubkey,
                  subscriber_verified |->
                      IF node_pubkey # <<>>
                      THEN check_subscriber(envelope.recipient_pubkey, node_pubkey[1])
                      ELSE envelope.recipient_pubkey = PUBLIC_RECIPIENT,
                  recipient_pubkey |-> <<envelope.recipient_pubkey>>]

\* tests::make_test_state
make_test_state(seed, recipient, payload) ==
    <<ENVELOPE_VERSION>> \o verifying_key(seed)
        \o sign(verifying_key(seed), recipient \o payload) \o recipient \o payload

NodeKey == Bytes32(7)
OtherKey == Bytes32(8)
Recipients == {PUBLIC_RECIPIENT, NodeKey, OtherKey}
Payloads == SeqsUpTo({123}, MaxPayload)

BuiltEnvelopes ==
    {make_test_state(seed, recipient, payload) :
        seed \in SigningSeeds, recipient \in Recipients, payload \in Payloads}

\* states without an envelope: too short by one byte, plain, or another version
NoEnvelopes ==
    {[i \in 1..128 |-> 0], SubSeq(make_test_state(42, NodeKey, <<123>>), 1, 128),
     <<>>, <<1>>, <<123, 125>>}
    \cup {[make_test_state(42, recipient, <<123>>) EXCEPT ![1] = version] :
            recipient \in {PUBLIC_RECIPIENT, NodeKey}, version \in {0, 153}}

\* the byte a change puts at offset n: its complement, or the next value
ChangedByte(st, offset, how) ==
    IF how = "flip" THEN 255 - st[offset + 1] ELSE (st[offset + 1] + 1) % 256

\* the value that change replaced, given the value it left
RestoredByte(b, how) == IF how = "flip" THEN 255 - b ELSE (b + 255) % 256

Unchanged == -1

\* the offset and kind of the change made to the state, if any
ChangeOf(r) ==
    IF r.op = "none" THEN [offset |-> Unchanged, how |-> "none"]
    ELSE [offset |-> r.offset, how |-> r.how]

\* someone other than the creator changes one byte of the state
ChangeByte(offset, how) ==
    /\ returned = NoReturn
    /\ offset < Len(state)
    /\ state' = [state EXCEPT ![offset + 1] = ChangedByte(state, offset, how)]
    /\ returned' = [op |-> "change", offset |-> offset, how |-> how]
    /\ UNCHANGED <<cacheVars, parameters, update_result, oracleVars, twin, peer_state>>

VerifyIdentity(node_pubkey) ==
    /\ returned' =
           [op |-> "verify_identity", node_pubkey |-> node_pubkey,
            offset |-> ChangeOf(returned).offset, how |-> ChangeOf(returned).how,
            result |-> verify_identity(state, node_pubkey)]
    /\ UNCHANGED <<cacheVars, diVars, oracleVars, twin, peer_state>>

\* DatapodParams; deserializes is whether serde_json::from_slice accepts the bytes
DatapodParams(deserializes, creator_pubkey, recipient_pubkey) ==
    [deserializes |-> deserializes, creator_pubkey |-> creator_pubkey,
     recipient_pubkey |-> recipient_pubkey]

\* char::to_digit(16) of a hex digit
hex_value(c) == IF c \in 48..57 THEN c - 48 ELSE IF c \in 65..70 THEN c - 55 ELSE c - 87

\* u8::from_str_radix(pair, 16) of a pair that parses
pair_value(pair) ==
    IF pair[1] = 43 THEN hex_value(pair[2])
    ELSE 16 * hex_value(pair[1]) + hex_value(pair[2])

\* the datapod contract's hex_decode: its outcome and, when Ok, the bytes
datapod_hex_decode(s) ==
    LET outcome == IF Len(s) % 2 # 0 THEN "Err" ELSE DecodePairs(s, 0)
    IN  [outcome |-> outcome,
         bytes |-> IF outcome = "Ok"
                   THEN [i \in 1..(Len(s) \div 2) |-> pair_value(SubSeq(s, 2 * i - 1, 2 * i))]
                   ELSE <<>>]

\* the datapod contract's validate_state: "Valid", "Invalid", "Err", or "Panic"
datapod_validate_state(params, bytes) ==
    IF bytes = <<>> THEN "Valid"
    ELSE IF Len(bytes) < ENVELOPE_HEADER_SIZE THEN "Invalid"
    ELSE IF ~params.deserializes THEN "Err"
    ELSE IF bytes[1] # 1 THEN "Invalid"
    ELSE LET creator_pubkey == Slice(bytes, 1, 33)
             signature == Slice(bytes, 33, 97)
             recipient_pubkey == Slice(bytes, 97, 129)
             payload == Slice(bytes, 129, Len(bytes))
             expected_creator == datapod_hex_decode(params.creator_pubkey)
             expected_recipient == datapod_hex_decode(params.recipient_pubkey)
         IN  IF expected_creator.outcome # "Ok" THEN expected_creator.outcome
             ELSE IF creator_pubkey # expected_creator.bytes THEN "Invalid"
             ELSE IF expected_recipient.outcome # "Ok" THEN expected_recipient.outcome
             ELSE IF recipient_pubkey # expected_recipient.bytes THEN "Invalid"
             ELSE IF ~IsVerifyingKey(creator_pubkey) THEN "Err"
             ELSE IF verify(creator_pubkey, recipient_pubkey \o payload, signature)
                  THEN "Valid" ELSE "Invalid"

\* tests::make_params
make_params(creator, recipient) ==
    DatapodParams(TRUE, hex_encode(creator), hex_encode(recipient))

\* the parameters a datapod holding st may have been created with: those of
\* its creator and recipient (in either case of hex), another creator's,
\* bytes that are no DatapodParams, and a creator of odd length
ParamsFor(st) ==
    LET creator == IF Len(st) >= 33 THEN Slice(st, 1, 33) ELSE verifying_key(42)
        recipient == IF Len(st) >= 129 THEN Slice(st, 97, 129) ELSE NodeKey
        own == make_params(creator, recipient)
    IN  {own,
         [own EXCEPT !.creator_pubkey = to_uppercase(own.creator_pubkey)],
         make_params(OtherKey, recipient),
         [own EXCEPT !.deserializes = FALSE],
         [own EXCEPT !.creator_pubkey = Tail(own.creator_pubkey)]}

DatapodValidateState(params) ==
    /\ returned' =
           [op |-> "datapod_validate_state", params |-> params,
            offset |-> ChangeOf(returned).offset, how |-> ChangeOf(returned).how,
            verdict |-> datapod_validate_state(params, state)]
    /\ UNCHANGED <<cacheVars, diVars, oracleVars, twin, peer_state>>

InitIdentity ==
    /\ CacheIdle
    /\ DepositIdle
    /\ state \in BuiltEnvelopes \cup NoEnvelopes
    /\ OthersIdle

NextIdentity ==
    \/ \E offset \in 0..(ENVELOPE_HEADER_SIZE + MaxPayload - 1), how \in {"flip", "next"} :
           ChangeByte(offset, how)
    \/ \E node_pubkey \in {<<>>, <<NodeKey>>, <<PUBLIC_RECIPIENT>>} :
           VerifyIdentity(node_pubkey)
    \/ \E params \in ParamsFor(state) : DatapodValidateState(params)

SpecIdentity == InitIdentity /\ [][NextIdentity]_vars

(***************************************************************************)
(* Claims about the identity envelope.                                     *)
(***************************************************************************)
\* st is version byte 1, a creator key, that key's signature over
\* recipient || payload, the recipient, the payload
LaidOut(st) ==
    /\ Len(st) >= 129
    /\ st[1] = 1
    /\ IsVerifyingKey(SubSeq(st, 2, 33))
    /\ SubSeq(st, 34, 97)
           = sign(SubSeq(st, 2, 33), SubSeq(st, 98, 129) \o SubSeq(st, 130, Len(st)))

\* C29: on a state laid out as version byte 1, creator key, signature by that
\* key over recipient || payload, recipient, payload, verify_identity reports
\* creator_verified and subscriber_verified = (recipient is all-zero or is the
\* configured node key), only the all-zero recipient verifying when no node key
\* is configured; on a state shorter than 129 bytes or whose first byte is not
\* 1 it reports both flags false and no creator or recipient key.
C29_VerifyIdentity ==
    returned.op = "verify_identity" =>
        LET r == returned.result
            recipient == SubSeq(state, 98, 129)
        IN  /\ LaidOut(state) =>
                   /\ r.creator_verified
                   /\ r.subscriber_verified <=>
                          \/ recipient = Bytes32(0)
                          \/ returned.node_pubkey = <<recipient>>
                   /\ returned.node_pubkey = <<>> =>
                          (r.subscriber_verified <=> recipient = Bytes32(0))
                   /\ r.creator_pubkey = <<SubSeq(state, 2, 33)>>
                   /\ r.recipient_pubkey = <<recipient>>
            /\ (Len(state) < 129 \/ state[1] # 1) =>
                   /\ ~r.creator_verified
                   /\ ~r.subscriber_verified
                   /\ r.creator_pubkey = <<>>
                   /\ r.recipient_pubkey = <<>>

\* an untouched envelope addressed to the open recipient was verified on a node
\* that has a key of its own
C29_Witness ==
    /\ returned.op = "verify_identity"
    /\ returned.offset = Unchanged
    /\ LaidOut(state)
    /\ SubSeq(state, 98, 129) = Bytes32(0)
    /\ returned.node_pubkey = <<NodeKey>>
    /\ returned.result.creator_verified
    /\ returned.result.subscriber_verified

\* the state before its byte was changed
Original(st, r) ==
    IF r.offset = Unchanged THEN st
    ELSE [st EXCEPT ![r.offset + 1] = RestoredByte(st[r.offset + 1], r.how)]

TwinEntry(size_bytes, last_accessed) ==
    [size_bytes |-> size_bytes, last_accessed |-> last_accessed]

\* lru_order.retain(|k| k != key)
Without(order, key) == SelectSeq(order, LAMBDA k : k # key)

\* cache.rs:336-361, the loop of the build without lepus
RECURSIVE LruAdmissionLoop(_, _, _, _, _, _)
LruAdmissionLoop(c, order, cur, size_bytes, t, ev) ==
    LET done == [contracts |-> c, lru_order |-> order, current_bytes |-> cur,
                 evicted |-> ev]
    IN  IF cur + size_bytes > budget_bytes /\ order # <<>>
        THEN LET oldest_key == Head(order)
             IN  IF oldest_key \in DOMAIN c
                 THEN IF saturating_sub(t, c[oldest_key].last_accessed) >= twin_min_ttl
                      THEN LruAdmissionLoop(Remove(c, oldest_key), Tail(order),
                               saturating_sub(cur, c[oldest_key].size_bytes),
                               size_bytes, t, Append(ev, oldest_key))
                      ELSE done
                 ELSE LruAdmissionLoop(c, Tail(order), cur, size_bytes, t, ev)
        ELSE done

\* cache.rs:483-512, the loop of the build without lepus and its re-queueing
RECURSIVE LruSweepLoop(_, _, _, _, _, _, _)
LruSweepLoop(c, order, cur, t, retain, ev, skipped_keys) ==
    LET done == [contracts |-> c, lru_order |-> order \o skipped_keys,
                 current_bytes |-> cur, evicted |-> ev]
    IN  IF cur > budget_bytes /\ order # <<>>
        THEN LET oldest_key == Head(order)
             IN  IF oldest_key \in DOMAIN c
                 THEN IF saturating_sub(t, c[oldest_key].last_accessed) >= twin_min_ttl
                      THEN IF oldest_key \in retain
                           THEN LruSweepLoop(c, Tail(order), cur, t, retain, ev,
                                             Append(skipped_keys, oldest_key))
                           ELSE LruSweepLoop(Remove(c, oldest_key), Tail(order),
                                    saturating_sub(cur, c[oldest_key].size_bytes),
                                    t, retain, Append(ev, oldest_key), skipped_keys)
                      ELSE done
                 ELSE LruSweepLoop(c, Tail(order), cur, t, retain, ev, skipped_keys)
        ELSE done

\* persistence_score under the weights (0, 0, 0, 1)
recency_only_score(e, t) == RatClamp(recency_score(e, t), <<0, 1>>, <<1, 1>>)

\* find_lowest_score_victim_with_retain under these weights: the scan keeps the
\* least <<score, last_accessed, key>>, which no visiting order changes
RecencyVictim(c, t, retain) ==
    LET eligible == {k \in DOMAIN c :
                        /\ ~(saturating_sub(t, c[k].last_accessed) < twin_min_ttl)
                        /\ k \notin retain}
        candidate(k) == <<recency_only_score(c[k], t), c[k].last_accessed, k>>
    IN  IF eligible = {} THEN NoVictim
        ELSE CHOOSE k \in eligible :
                 \A other \in eligible \ {k} : Dominated(candidate(k), candidate(other))

\* cache.rs:365-383
RECURSIVE CwpAdmissionLoop(_, _, _, _, _)
CwpAdmissionLoop(c, cur, size_bytes, t, ev) ==
    LET done == [contracts |-> c, current_bytes |-> cur, evicted |-> ev]
    IN  IF cur + size_bytes > budget_bytes /\ DOMAIN c # {}
        THEN LET victim == RecencyVictim(c, t, {})
             IN  IF victim = NoVictim THEN done
                 ELSE CwpAdmissionLoop(Remove(c, victim),
                          saturating_sub(cur, c[victim].size_bytes),
                          size_bytes, t, Append(ev, victim))
        ELSE done

\* cache.rs:515-532
RECURSIVE CwpSweepLoop(_, _, _, _, _)
CwpSweepLoop(c, cur, t, retain, ev) ==
    LET done == [contracts |-> c, current_bytes |-> cur, evicted |-> ev]
    IN  IF cur > budget_bytes /\ DOMAIN c # {}
        THEN LET victim == RecencyVictim(c, t, retain)
             IN  IF victim = NoVictim THEN done
                 ELSE CwpSweepLoop(Remove(c, victim),
                          saturating_sub(cur, c[victim].size_bytes),
                          t, retain, Append(ev, victim))
        ELSE done

\* record_access in the build without lepus
lru_record_access(cache, key, size_bytes, t) ==
    IF key \in DOMAIN cache.contracts
    THEN [contracts |-> [cache.contracts EXCEPT ![key] = TwinEntry(size_bytes, t)],
          lru_order |-> Append(Without(cache.lru_order, key), key),
          current_bytes |->
              IF cache.contracts[key].size_bytes # size_bytes
              THEN AdjustBytes(cache.current_bytes, size_bytes,
                               cache.contracts[key].size_bytes)
              ELSE cache.current_bytes,
          evicted |-> <<>>]
    ELSE LET out == LruAdmissionLoop(cache.contracts, cache.lru_order,
                                     cache.current_bytes, size_bytes, t, <<>>)
         IN  [contracts |-> (key :> TwinEntry(size_bytes, t)) @@ out.contracts,
              lru_order |-> Append(out.lru_order, key),
              current_bytes |-> saturating_add(out.current_bytes, size_bytes),
              evicted |-> out.evicted]

\* record_access in the lepus build
cwp_record_access(cache, key, size_bytes, t) ==
    IF key \in DOMAIN cache.contracts
    THEN [contracts |-> [cache.contracts EXCEPT ![key] = TwinEntry(size_bytes, t)],
          current_bytes |->
              IF cache.contracts[key].size_bytes # size_bytes
              THEN AdjustBytes(cache.current_bytes, size_bytes,
                               cache.contracts[key].size_bytes)
              ELSE cache.current_bytes,
          evicted |-> <<>>]
    ELSE LET out == CwpAdmissionLoop(cache.contracts, cache.current_bytes,
                                     size_bytes, t, <<>>)
         IN  [contracts |-> (key :> TwinEntry(size_bytes, t)) @@ out.contracts,
              current_bytes |-> saturating_add(out.current_bytes, size_bytes),
              evicted |-> out.evicted]

\* the cache fields of a call's outcome
LruFields(out) ==
    [contracts |-> out.contracts, lru_order |-> out.lru_order,
     current_bytes |-> out.current_bytes]

CwpFields(out) == [contracts |-> out.contracts, current_bytes |-> out.current_bytes]

TwinRecordAccess(key, size_bytes) ==
    /\ LET l == lru_record_access(twin.lru, key, size_bytes, now)
           c == cwp_record_access(twin.cwp, key, size_bytes, now)
       IN  twin' = [lru |-> LruFields(l), cwp |-> CwpFields(c), op |-> "record_access",
                    lru_evicted |-> l.evicted, cwp_evicted |-> c.evicted]
    /\ UNCHANGED <<cacheVars, diVars, returned, oracleVars, peer_state>>

TwinTouch(key) ==
    /\ twin' = [twin EXCEPT
           !.lru = IF key \in DOMAIN twin.lru.contracts
                   THEN [twin.lru EXCEPT
                            !.contracts[key].last_accessed = now,
                            !.lru_order = Append(Without(twin.lru.lru_order, key), key)]
                   ELSE twin.lru,
           !.cwp = IF key \in DOMAIN twin.cwp.contracts
                   THEN [twin.cwp EXCEPT !.contracts[key].last_accessed = now]
                   ELSE twin.cwp,
           !.op = "touch", !.lru_evicted = <<>>, !.cwp_evicted = <<>>]
    /\ UNCHANGED <<cacheVars, diVars, returned, oracleVars, peer_state>>

TwinSweepExpired(retain) ==
    /\ LET l == LruSweepLoop(twin.lru.contracts, twin.lru.lru_order,
                             twin.lru.current_bytes, now, retain, <<>>, <<>>)
           c == CwpSweepLoop(twin.cwp.contracts, twin.cwp.current_bytes, now, retain, <<>>)
       IN  twin' = [lru |-> LruFields(l), cwp |-> CwpFields(c), op |-> "sweep_expired",
                    lru_evicted |-> l.evicted, cwp_evicted |-> c.evicted]
    /\ UNCHANGED <<cacheVars, diVars, returned, oracleVars, peer_state>>

\* the TimeSource's clock moves on
TwinAdvanceTime ==
    /\ now < MaxTwinTime
    /\ now' = now + 1
    /\ UNCHANGED <<contracts, current_bytes, result, removed, unprotected_only,
                   diVars, otherVars>>

InitTwin ==
    /\ CacheIdle
    /\ DepositIdle
    /\ state = <<>>
    /\ OthersIdle

NextTwin ==
    \/ \E key \in Keys : TwinRecordAccess(key, 1000)
    \/ \E key \in Keys : TwinTouch(key)
    \/ \E retain \in SUBSET Keys : TwinSweepExpired(retain)
    \/ TwinAdvanceTime

SpecTwin == InitTwin /\ [][NextTwin]_vars

\* C31: after every record_access, touch and sweep_expired, the build without
\* lepus has evicted the same keys in the same order as the lepus build with
\* weights (0, 0, 0, 1).
C31_LruIsRecencyOnlyCwp == twin.lru_evicted = twin.cwp_evicted

(***************************************************************************)
(* The datapod contract's update_state (contracts/datapod/src/lib.rs).     *)
(* In this part `parameters` holds the datapod's DatapodParams and `state` *)
(* its state bytes.                                                        *)
(***************************************************************************)
\* UpdateData::State(state), ::Delta(delta), ::StateAndDelta { state, delta }
DatapodUpdate(kind, state_bytes, delta_bytes) ==
    [kind |-> kind, state |-> state_bytes, delta |-> delta_bytes]

\* mutant of raw_of
raw_of_any(ud) == IF ud.kind = "Delta" THEN <<ud.delta>> ELSE <<ud.state>>

\* lib.rs:119-124: <<raw>>, or <<>> where the loop continues
raw_of(ud) ==
    IF ud.kind = "State" /\ ud.state # <<>> THEN <<ud.state>>
    ELSE IF ud.kind = "Delta" /\ ud.delta # <<>> THEN <<ud.delta>>
    ELSE IF ud.kind = "StateAndDelta" /\ ud.state # <<>> THEN <<ud.state>>
    ELSE <<>>

\* the loop of update_state from item i on
RECURSIVE DatapodUpdateLoop(_, _, _)
DatapodUpdateLoop(params, data, i) ==
    IF i > Len(data) THEN [ok |-> FALSE, error |-> "InvalidUpdate", state |-> <<>>]
    ELSE LET raw == raw_of(data[i])
         IN  IF raw = <<>> THEN DatapodUpdateLoop(params, data, i + 1)
             ELSE LET verdict == datapod_validate_state(params, raw[1])
                  IN  IF verdict = "Valid"
                      THEN [ok |-> TRUE, error |-> "none", state |-> raw[1]]
                      ELSE IF verdict = "Invalid"
                      THEN DatapodUpdateLoop(params, data, i + 1)
                      ELSE [ok |-> FALSE, error |-> verdict, state |-> <<>>]

datapod_update_state(params, data) == DatapodUpdateLoop(params, data, 1)

PodCreator == verifying_key(42)
PodParams ==
    {make_params(PodCreator, NodeKey),
     [make_params(PodCreator, NodeKey) EXCEPT !.deserializes = FALSE],
     [make_params(PodCreator, NodeKey) EXCEPT
         !.recipient_pubkey = Tail(hex_encode(NodeKey))]}

\* state bytes an update may carry: none, two envelopes of the datapod's
\* creator and recipient, one of them with its last byte changed, one of
\* another creator, and a short one
PodCandidates ==
    {<<>>,
     make_test_state(42, NodeKey, <<>>),
     make_test_state(42, NodeKey, <<123>>),
     [make_test_state(42, NodeKey, <<123>>) EXCEPT ![130] = 0],
     make_test_state(99, NodeKey, <<123>>),
     <<1, 42>>}

PodUpdates ==
    {DatapodUpdate("State", b, <<>>) : b \in PodCandidates}
    \cup {DatapodUpdate("Delta", <<>>, make_test_state(42, NodeKey, <<>>)),
          DatapodUpdate("StateAndDelta", <<>>, make_test_state(42, NodeKey, <<123>>))}

PodBatches == SeqsUpTo(PodUpdates, 2)

DatapodUpdateState(data) ==
    /\ LET out == datapod_update_state(parameters, data)
       IN  /\ state' = IF out.ok THEN out.state ELSE state
           /\ update_result' = [called |-> TRUE, ok |-> out.ok, error |-> out.error,
                                data |-> data]
    /\ UNCHANGED <<parameters, cacheVars, otherVars>>

InitDatapod ==
    /\ CacheIdle
    /\ parameters \in PodParams
    /\ update_result = NoUpdate
    /\ state = <<>>
    /\ OthersIdle

NextDatapod == \E data \in PodBatches : DatapodUpdateState(data)

SpecDatapod == InitDatapod /\ [][NextDatapod]_vars

\* the bytes update_state takes from the items of data, in order
RECURSIVE PodRaws(_)
PodRaws(data) ==
    IF data = <<>> THEN <<>> ELSE raw_of(Head(data)) \o PodRaws(Tail(data))

\* the bytes the items of data carry, empty ones included
RECURSIVE PodCarried(_)
PodCarried(data) ==
    IF data = <<>> THEN <<>> ELSE raw_of_any(Head(data)) \o PodCarried(Tail(data))

\* the first index of raws whose verdict is in verdicts, 0 if there is none
FirstWith(params, raws, verdicts) ==
    LET hits == {i \in 1..Len(raws) : datapod_validate_state(params, raws[i]) \in verdicts}
    IN  IF hits = {} THEN 0 ELSE CHOOSE i \in hits : \A j \in hits : i <= j

\* C32: update_state returns the first non-empty candidate that validate_state
\* finds Valid, provided validate_state fails on no candidate before it; it
\* returns the failure of validate_state on the first candidate on which it
\* fails, when none before it is Valid; it fails with InvalidUpdate when every
\* non-empty candidate is Invalid or there is none.  After a successful update
\* the state is a non-empty envelope that validate_state finds Valid.
C32_UpdateTakesFirstValid ==
    /\ \A data \in PodBatches :
          LET raws == PodRaws(data)
              first == FirstWith(parameters, raws, {"Valid", "Err", "Panic"})
              out == datapod_update_state(parameters, data)
          IN  IF first = 0 THEN ~out.ok /\ out.error = "InvalidUpdate"
              ELSE IF datapod_validate_state(parameters, raws[first]) = "Valid"
              THEN out.ok /\ out.state = raws[first]
              ELSE ~out.ok /\ out.error = datapod_validate_state(parameters, raws[first])
    /\ (update_result.called /\ update_result.ok) =>
          /\ state # <<>>
          /\ datapod_validate_state(parameters, state) = "Valid"

\* the first candidate passing validate_state is returned, and InvalidUpdate
\* when none passes
C32_FirstPassingCandidateAsStated ==
    \A data \in PodBatches :
        LET raws == PodCarried(data)
            first == FirstWith(parameters, raws, {"Valid"})
            out == datapod_update_state(parameters, data)
        IN  IF first = 0 THEN ~out.ok /\ out.error = "InvalidUpdate"
            ELSE out.ok /\ out.state = raws[first]

\* an update whose first item is empty and whose second is a valid envelope
\* has replaced the state by the second
C32_Witness ==
    /\ update_result.called /\ update_result.ok
    /\ Len(update_result.data) = 2
    /\ raw_of(update_result.data[1]) = <<>>
    /\ state = update_result.data[2].state
    /\ datapod_validate_state(parameters, state) = "Valid"

(***************************************************************************)
(* Proofs submitted one at a time to the deposit-index contract, the last  *)
(* one kept in `returned`.  The slot an envelope's statement was signed    *)
(* for is part of the envelope; check_quorum and apply_proof do not read   *)
(* it, so two proofs with the same scp_envelopes carry the same slots.     *)
(***************************************************************************)
DeltaOf(proof) == [kind |-> "Delta", proof |-> proof, incoming |-> DefaultMap]

\* the contract ids and totals of a state, in order
Totals(st) ==
    [i \in 1..Len(MapOf(st).deposits) |->
        <<MapOf(st).deposits[i].contract_id, MapOf(st).deposits[i].total_deposited>>]

SubmitProof(proof) ==
    \E out \in update_state(parameters, state, <<DeltaOf(proof)>>) :
        /\ WithinDepositBounds(out.state)
        /\ state' = out.state
        /\ update_result' = [called |-> TRUE, ok |-> out.ok]
        /\ returned' = [op |-> "update_state", proof |-> proof,
                        applied |-> out.trace \in {<<"merged">>, <<"advanced">>},
                        credited |-> Totals(out.state) # Totals(state)]
        /\ UNCHANGED <<parameters, cacheVars, oracleVars, twin, peer_state>>

InitReplay ==
    /\ CacheIdle
    /\ DepositIdle
    /\ state = <<>>
    /\ OthersIdle

NextReplay == \E proof \in Proofs : SubmitProof(proof)

SpecReplay == InitReplay /\ [][NextReplay]_vars

\* C33: once a proof has been applied, the same envelopes, transaction set and
\* result metas submitted under a larger ledger_seq change no total_deposited.
C33_ReplayCreditsNothing ==
    (returned # NoReturn /\ returned.applied) =>
        \A ledger_seq \in (returned.proof.ledger_seq + 1)..MaxLedger :
            \A out \in update_state(parameters, state,
                          <<DeltaOf([returned.proof EXCEPT !.ledger_seq = ledger_seq])>>) :
                Totals(out.state) = Totals(state)

\* C34: of two proofs with the same ledger_seq, envelopes and transaction set
\* but different tx_result_metas, at most one is accepted, or both credit the
\* same amounts.
C34_MetasBoundToSignedData ==
    \A p \in Proofs, q \in Proofs :
        (/\ p.ledger_seq = q.ledger_seq
         /\ p.scp_envelopes = q.scp_envelopes
         /\ p.transaction_set = q.transaction_set
         /\ p.undecodable = q.undecodable
         /\ p.tx_result_metas # q.tx_result_metas) =>
            \A a \in update_state(parameters, state, <<DeltaOf(p)>>),
               b \in update_state(parameters, state, <<DeltaOf(q)>>) :
                (a.trace \in {<<"merged">>, <<"advanced">>}
                 /\ b.trace \in {<<"merged">>, <<"advanced">>})
                    => Totals(a.state) = Totals(b.state)

(***************************************************************************)
(* Two nodes holding the deposit-index contract: this node (`state`) and a *)
(* peer (`peer_state`).  They receive no proofs; each can send the other   *)
(* its full state as UpdateData::State, or the delta get_state_delta makes *)
(* for the other's summary as UpdateData::Delta.                           *)
(***************************************************************************)
StateOf(st) == [kind |-> "State", proof |-> InvalidProof, incoming |-> st[1]]

\* the fields serde needs to build a DepositProof (types.rs:60-70)
DepositProofFields == {"ledger_seq", "scp_envelopes", "transaction_set", "tx_result_metas"}

\* lib.rs:81-82: serde_json::from_slice::<DepositProof> of delta bytes that
\* hold the JSON object `json`
proof_from_slice(json) == DepositProofFields \subseteq DOMAIN json

\* UpdateData::Delta carrying the bytes of a State (the JSON of a DepositMap)
DeltaFromState(st) ==
    IF proof_from_slice(st[1])
    THEN [kind |-> "Delta", proof |-> st[1], incoming |-> DefaultMap]
    ELSE [kind |-> "Malformed", proof |-> InvalidProof, incoming |-> DefaultMap]

\* the receiver's update_state on `data` sent by the holder of `sent`
Receive(receiver, sent, data, via) ==
    \E out \in update_state(parameters, receiver, data) :
        /\ WithinDepositBounds(out.state)
        /\ update_result' = [called |-> TRUE, ok |-> out.ok, via |-> via,
                             accepted |-> out.ok /\ out.state # receiver,
                             sent |-> sent, before |-> receiver,
                             received |-> out.state]

SendState(to_peer) ==
    LET sender == IF to_peer THEN state ELSE peer_state
        receiver == IF to_peer THEN peer_state ELSE state
    IN  /\ sender # <<>>
        /\ Receive(receiver, sender, <<StateOf(sender)>>, "State")
        /\ IF to_peer
           THEN peer_state' = update_result'.received /\ state' = state
           ELSE state' = update_result'.received /\ peer_state' = peer_state
        /\ UNCHANGED <<parameters, cacheVars, returned, oracleVars, twin>>

SendDelta(to_peer) ==
    LET sender == IF to_peer THEN state ELSE peer_state
        receiver == IF to_peer THEN peer_state ELSE state
        delta == get_state_delta(sender, summarize_state(receiver))
    IN  /\ delta.ok /\ delta.delta # <<>>
        /\ Receive(receiver, sender, <<DeltaFromState(delta.delta)>>, "Delta")
        /\ IF to_peer
           THEN peer_state' = update_result'.received /\ state' = state
           ELSE state' = update_result'.received /\ peer_state' = peer_state
        /\ UNCHANGED <<parameters, cacheVars, returned, oracleVars, twin>>

InitSync ==
    /\ CacheIdle
    /\ DepositIdle
    /\ state \in HeldStates
    /\ peer_state \in HeldStates
    /\ returned = NoReturn
    /\ relayer = RelayerStart
    /\ subscriber_task = SubscriberStart
    /\ twin = TwinStart

NextSync ==
    \/ \E to_peer \in BOOLEAN : SendState(to_peer)
    \/ \E to_peer \in BOOLEAN : SendDelta(to_peer)

SpecSync == InitSync /\ [][NextSync]_vars

\* C35: once a node has accepted the other's full state, its own resulting
\* state sent back as a State update is not accepted as newer.
C35_AcceptedStateNotSentBackAsNewer ==
    (update_result.called /\ update_result.via = "State" /\ update_result.accepted) =>
        \A out \in update_state(parameters, update_result.sent,
                                <<StateOf(update_result.received)>>) :
            out.state = update_result.sent

\* C36: the non-empty delta of get_state_delta for a peer with an older
\* version, given to the peer's update_state as a Delta, does not make it fail
\* and brings the peer's map to the sender's deposits and last_ledger_seq.
C36_DeltaBringsPeerUpToDate ==
    (/\ update_result.called
     /\ update_result.via = "Delta"
     /\ MapOf(update_result.before).version < MapOf(update_result.sent).version) =>
        /\ update_result.ok
        /\ MapOf(update_result.received).deposits = MapOf(update_result.sent).deposits
        /\ MapOf(update_result.received).last_ledger_seq
               = MapOf(update_result.sent).last_ledger_seq

\* C37: adding a signature-valid externalize envelope of a key outside every
\* configured organization, with any tx_set_hash, to a proof leaves the
\* outcome of the proof (accepted or not, and the deposits credited) the same.
C37_OutsiderEnvelopesIgnored ==
    \A proof \in ValidProofs, tx_set_hash \in {1, 2} :
        LET added == [proof EXCEPT
                         !.scp_envelopes = Append(@, Externalize(Outsider, tx_set_hash))]
        IN  update_state(parameters, state, <<DeltaOf(added)>>)
                = update_state(parameters, state, <<DeltaOf(proof)>>)

(***************************************************************************)
(* The relayer with a proof source that answers as MockStellarProofSource  *)
(* does (oracle.rs:203-217): the ledgers with deposits are                 *)
(* 1..MaxLedgerSeq, and                                                    *)
(* a query returns those above since_ledger in ascending order.  The       *)
(* OpManager is available; a query, and for every sequence its fetch and   *)
(* its UPDATE, succeed whenever they are tried again and again.            *)
(***************************************************************************)
RECURSIVE SourceLedgers(_)
SourceLedgers(since_ledger) ==
    IF since_ledger >= MaxLedgerSeq THEN <<>>
    ELSE <<since_ledger + 1>> \o SourceLedgers(since_ledger + 1)

SourceQuery(ok) == RelayQuery(ok, SourceLedgers(relayer.last_processed_ledger), 0)

\* the iteration of the batch loop for ledger_seq, with both steps succeeding
ProcessOk(ledger_seq) ==
    /\ relayer.pc = "batch"
    /\ Head(relayer.pending) = ledger_seq
    /\ RelayProcess(TRUE, TRUE)

NextRelayLive ==
    \/ RelayStart(TRUE)
    \/ RelayWaitOpManager(TRUE)
    \/ \E ok \in BOOLEAN : SourceQuery(ok)
    \/ \E fetched \in BOOLEAN, updated \in BOOLEAN : RelayProcess(fetched, updated)

SpecRelayLive ==
    /\ InitRelay
    /\ [][NextRelayLive]_vars
    /\ WF_vars(RelayStart(TRUE))
    /\ WF_vars(RelayWaitOpManager(TRUE))
    /\ SF_vars(SourceQuery(TRUE))
    /\ WF_vars(\E fetched \in BOOLEAN, updated \in BOOLEAN : RelayProcess(fetched, updated))
    /\ \A ledger_seq \in 1..MaxLedgerSeq : SF_vars(ProcessOk(ledger_seq))

\* C38: every ledger sequence the query has reported is eventually submitted
\* in an UPDATE that succeeds.
C38_ReportedEventuallySubmitted ==
    \A ledger_seq \in 1..MaxLedgerSeq :
        (ledger_seq \in relayer.unsubmitted) ~> (ledger_seq \notin relayer.unsubmitted)

(***************************************************************************)
(* The relayer's backoff in u64 arithmetic (oracle.rs:371-375).  A u64 is  *)
(* four 16-bit limbs, least significant first.  An overflowing `*` panics  *)
(* in a build with overflow checks (the dev profile) and wraps in one      *)
(* without (the release profile).                                          *)
(***************************************************************************)
U64_BITS == 64
LimbBits == U64_BITS \div 4
Limb == Pow2(LimbBits)
U64_LIMBS == U64_BITS \div LimbBits

\* u64::saturating_pow for base 2: 2^exp, or u64::MAX from exp = 64 on
saturating_pow2(exp) ==
    IF exp >= U64_LIMBS * LimbBits THEN [i \in 1..U64_LIMBS |-> Limb - 1]
    ELSE [i \in 1..U64_LIMBS |-> IF exp \div LimbBits = i - 1 THEN Pow2(exp % LimbBits) ELSE 0]

\* the carry out of limb i of a * x, for a below 2^15
RECURSIVE CarryOut(_, _, _)
CarryOut(a, x, i) ==
    IF i = 0 THEN 0 ELSE (a * x[i] + CarryOut(a, x, i - 1)) \div Limb

\* a * x in u64: the wrapped product and whether it overflowed
u64_mul(a, x) ==
    [wrapped |-> [i \in 1..U64_LIMBS |-> (a * x[i] + CarryOut(a, x, i - 1)) % Limb],
     overflow |-> CarryOut(a, x, U64_LIMBS) > 0]

\* x.min(cap) for a cap below 2^31, as a number
u64_min(x, cap) ==
    IF \E i \in 3..U64_LIMBS : x[i] > 0 THEN cap
    ELSE IF x[2] >= Pow2(31 - LimbBits) THEN cap
    ELSE Min(x[2] * Limb + x[1], cap)

\* oracle.rs:373-375
relay_backoff_u64(failures, overflow_checks) ==
    LET product == u64_mul(BASE_BACKOFF_MS, saturating_pow2(failures))
    IN  IF product.overflow /\ overflow_checks
        THEN [panicked |-> TRUE, backoff_ms |-> 0]
        ELSE [panicked |-> FALSE,
              backoff_ms |-> u64_min(product.wrapped, RELAY_MAX_BACKOFF_MS)]

\* one tick whose query fails: the backoff sleep, then the Err branch
RelayQueryFails(jitter) ==
    /\ relayer.pc = "tick"
    /\ relayer.consecutive_failures < MaxQueryFailures
    /\ LET failures == relayer.consecutive_failures + 1
           next == relay_backoff_u64(failures, relayer.overflow_checks)
       IN  relayer' =
               [relayer EXCEPT
                   !.slept = IF relayer.consecutive_failures > 0
                             THEN relayer.backoff_ms + jitter ELSE 0,
                   !.slept_failures = relayer.consecutive_failures,
                   !.consecutive_failures = failures,
                   !.backoff_ms = IF next.panicked THEN relayer.backoff_ms
                                  ELSE next.backoff_ms,
                   !.pc = IF next.panicked THEN "panicked" ELSE "tick",
                   !.last = "query_failed"]
    /\ UNCHANGED <<cacheVars, diVars, returned, subscriber_task, twin, peer_state>>

InitBackoff ==
    /\ CacheIdle
    /\ DepositIdle
    /\ state = <<>>
    /\ returned = NoReturn
    /\ \E overflow_checks \in BOOLEAN :
           relayer = [RelayerStart EXCEPT !.pc = "tick"]
                         @@ [overflow_checks |-> overflow_checks]
    /\ subscriber_task = SubscriberStart
    /\ twin = TwinStart
    /\ peer_state = <<>>

NextBackoff == \E jitter \in JitterChoices(relayer.backoff_ms) : RelayQueryFails(jitter)

SpecBackoff == InitBackoff /\ [][NextBackoff]_vars

\* C40: while queries keep failing, the task does not abort, and the backoff
\* neither decreases nor falls below the base.
C40_BackoffNeverDecreases ==
    [][/\ relayer'.pc # "panicked"
       /\ relayer'.backoff_ms >= relayer.backoff_ms
       /\ relayer'.backoff_ms >= BASE_BACKOFF_MS]_vars

(***************************************************************************)
(* The cache together with the deposit-index hook.  The code that calls    *)
(* the hook is not part of the sources modelled here; it is modelled from  *)
(* its description: on every UPDATE of a contract the node ingests, the    *)
(* hook is called with the contract's key, the new state bytes and the     *)
(* keys the cache holds, and the callback calls update_commitment for each *)
(* matched key.  `state` holds the deposit-index state ingested last.      *)
(***************************************************************************)
\* the ContractKey of a cache key
HostedKey(k) == [id |-> k, code |-> k]

IndexKey == HostedKey(<<9, 9>>)

\* the keys the cache holds, in ascending order of their bytes
RECURSIVE HostedKeysOf(_)
HostedKeysOf(S) ==
    IF S = {} THEN <<>>
    ELSE LET k == CHOOSE x \in S : \A y \in S \ {x} : BytesLess(x, y)
         IN  <<HostedKey(k)>> \o HostedKeysOf(S \ {k})

\* the callback: update_commitment for every (key, deposited_xlm) of updates
RECURSIVE ApplyCommitments(_, _)
ApplyCommitments(c, updates) ==
    IF updates = <<>> THEN c
    ELSE LET u == Head(updates)
             next == IF u.key.id \in DOMAIN c
                     THEN [c EXCEPT ![u.key.id].deposited_xlm = u.xlm] ELSE c
         IN  ApplyCommitments(next, Tail(updates))

\* deposit-index states with at most one entry per hosted contract
IngestedStates ==
    {<<[version |-> version, last_ledger_seq |-> 1,
        deposits |-> [i \in 1..Len(ids) |-> DepositEntry(hex_encode(ids[i]), total, 1)]]>> :
        version \in 1..2, total \in {-1, 1},
        ids \in {<<>>, <<<<0, 1>>>>, <<<<1, 0>>>>, <<<<0, 1>>, <<1, 0>>>>}}

IngestIndexUpdate(new_state) ==
    /\ state' = new_state
    /\ LET out == check_deposit_index_update(IndexKey.id, IndexKey, new_state,
                                             HostedKeysOf(DOMAIN contracts))
       IN  contracts' = IF out.called THEN ApplyCommitments(contracts, out.updates)
                        ELSE contracts
    /\ result' = NoCall
    /\ removed' = <<>>
    /\ unprotected_only' = FALSE
    /\ UNCHANGED <<current_bytes, now, parameters, update_result, otherVars>>

InitIngest ==
    /\ CacheIdle
    /\ DepositIdle
    /\ state = <<>>
    /\ OthersIdle

NextIngest ==
    \/ \E key \in Keys, size_bytes \in SizeChoices : RecordAccess(key, size_bytes, "Get")
    \/ \E new_state \in IngestedStates : IngestIndexUpdate(new_state)
    \/ AdvanceTime

SpecIngest == InitIngest /\ [][NextIngest]_vars

\* C39: every hosted key named in the deposit-index state ingested last has
\* that entry's clamped total_deposited as its deposited_xlm.
C39_CommitmentMatchesIngestedState ==
    ParsesAsDepositMap(state) =>
        \A k \in DOMAIN contracts, i \in 1..Len(state[1].deposits) :
            state[1].deposits[i].contract_id = hex_encode(k) =>
                contracts[k].deposited_xlm = to_u64(state[1].deposits[i].total_deposited)

====
